---------------------------- MODULE Spec2Model ----------------------------
(***************************************************************************)
(* A model of the forecast scraper of surfforecast-go: the calendar        *)
(* reconstruction and the assembly of newForecasts / newDailyForecast,     *)
(* the hour parsers and the row scrapers of forecast.go, and the tree      *)
(* queries of internal/htmlutil.                                           *)
(*                                                                         *)
(* Conventions.  A Go pointer or slice result is a sequence of length 0    *)
(* (nil) or 1 (the value pointed to).  A Go error is the sequence of its   *)
(* messages, outermost wrapper first; the nil error is << >>.  A           *)
(* time.Time is the record [year, month, day, hour] of its civil fields;   *)
(* the location has a fixed offset, so that normalisation is purely        *)
(* calendrical.                                                            *)
(***************************************************************************)
EXTENDS Integers, Sequences, FiniteSets, TLC

VARIABLES
    doc,           \* the root node the scraper is called with; << >> when none
    tz,            \* the timezone lookup the scraper is called with
    pc,            \* the statement to execute next; "done" after the return
    panicked,      \* whether the call ended in a run-time panic
    issuedAt,      \* argument issuedAt
    days,          \* argument days
    hours,         \* argument hours
    ratings,       \* argument ratings
    swells,        \* argument swells
    waveEnergies,  \* argument waveEnergies
    winds,         \* argument winds
    windStates,    \* argument windStates
    i,             \* loop index of newForecasts (1-based)
    year,          \* local year of newForecasts
    month,         \* local month of newForecasts
    previous,      \* local previous: << >> or << DailyForecast >>
    forecasts,     \* the prefix of local forecasts filled so far
    result,        \* returned *Forecasts: << >> or << Forecasts >>
    err,           \* returned error
    wanted,        \* the conditions Find and FindOne are called with
    allFound,      \* the targets Find returned
    oneFound,      \* the target FindOne returned: << >> or << node >>
    visited,       \* the nodes the statement of ForEach was called on, in order
    method,        \* the method of Scraper that was called; "" when none
    httpClient,    \* what s.httpClient.Do answers the request with
    resp,          \* local resp of the method: << >> or << response >>
    deferred,      \* the calls the method has deferred
    returned       \* the results the method returned: << >> or << [val, err] >>

vars == << doc, tz, pc, panicked, issuedAt, days, hours, ratings, swells,
           waveEnergies, winds, windStates, i, year, month, previous, forecasts,
           result, err, wanted, allFound, oneFound, visited,
           method, httpClient, resp, deferred, returned >>

\* The state of the method of Scraper around the scraping functions.
scraper == << method, httpClient, resp, deferred, returned >>

\* What the scraping functions are called with and called from: they leave
\* all of it alone.
input == << doc, tz, scraper >>

\* The state of the calls of internal/htmlutil on their own.
queries == << wanted, allFound, oneFound, visited >>

args == << issuedAt, days, hours, ratings, swells, waveEnergies, winds,
           windStates >>

-----------------------------------------------------------------------------
(* Bounds of the model.                                                    *)

MaxDays == 3
MaxHours == 2

-----------------------------------------------------------------------------
(* time.Month and time.Date.                                               *)

January == 1
December == 12

NoError == << >>
Nil == << >>

\* No method of Scraper is running: the scraping function is called on its
\* own.
NoCall ==
    /\ method = ""
    /\ httpClient = Nil
    /\ resp = Nil
    /\ deferred = << >>
    /\ returned = Nil

\* The short variable declaration v := ... followed by the statements F.
With(v, F(_)) == F(v)

IsLeap(y) == (y % 4 = 0 /\ y % 100 # 0) \/ y % 400 = 0

DaysIn(y, m) ==
    IF m = 2 THEN (IF IsLeap(y) THEN 29 ELSE 28)
    ELSE IF m \in {4, 6, 9, 11} THEN 30 ELSE 31

RECURSIVE NormDay(_, _, _)
NormDay(y, m, d) ==
    IF d < 1
    THEN LET py == IF m = January THEN y - 1 ELSE y
             pm == IF m = January THEN December ELSE m - 1
         IN  NormDay(py, pm, d + DaysIn(py, pm))
    ELSE IF d > DaysIn(y, m)
    THEN LET ny == IF m = December THEN y + 1 ELSE y
             nm == IF m = December THEN January ELSE m + 1
         IN  NormDay(ny, nm, d - DaysIn(y, m))
    ELSE [year |-> y, month |-> m, day |-> d]

\* time.Date(year, month, day, hour, 0, 0, 0, l), l a location of fixed offset:
\* month and day values outside
\* their ranges are normalised into the neighbouring year or month.
Date(y, m, d, h, l) ==
    LET y1 == y + ((m - 1) \div 12)
        m1 == ((m - 1) % 12) + 1
        n  == NormDay(y1, m1, d)
    IN  [year |-> n.year, month |-> n.month, day |-> n.day, hour |-> h, loc |-> l]

-----------------------------------------------------------------------------
(* newDailyForecast.                                                       *)

\* DailyLengthError with > for # in the comparison of line 198.
DailyLengthErrorGreater(hs, rs, ss, es, ws, wss) ==
    IF Len(hs) # Len(rs)
    THEN << "hours and ratings must have equal number of elements" >>
    ELSE IF Len(hs) # Len(ss)
    THEN << "hours and swells must have equal number of elements" >>
    ELSE IF Len(hs) # Len(es)
    THEN << "hours and wave energies must have equal number of elements" >>
    ELSE IF Len(hs) # Len(ws)
    THEN << "hours and winds must have equal number of elements" >>
    ELSE IF Len(hs) > Len(wss)
    THEN << "hours and wind states must have equal number of elements" >>
    ELSE NoError

\* Lines 186-200: the length checks of newDailyForecast.
DailyLengthError(hs, rs, ss, es, ws, wss) ==
    IF Len(hs) # Len(rs)
    THEN << "hours and ratings must have equal number of elements" >>
    ELSE IF Len(hs) # Len(ss)
    THEN << "hours and swells must have equal number of elements" >>
    ELSE IF Len(hs) # Len(es)
    THEN << "hours and wave energies must have equal number of elements" >>
    ELSE IF Len(hs) # Len(ws)
    THEN << "hours and winds must have equal number of elements" >>
    ELSE IF Len(hs) # Len(wss)
    THEN << "hours and wind states must have equal number of elements" >>
    ELSE NoError

\* HourlyForecastAt with the wind states taken from the end of the block.
HourlyForecastAtCrossed(l, y, m, d, hs, rs, ss, es, ws, wss, j) ==
    [ Timestamp              |-> Date(y, m, d, hs[j], l),
      Rating                 |-> rs[j],
      Swells                 |-> ss[j],
      WaveEnergyInKiloJoules |-> es[j],
      Wind |-> [ SpeedInKilometersPerHour     |-> ws[j].speed,
                 DirectionToInDegrees         |-> ws[j].degrees,
                 DirectionFromInCompassPoints |-> ws[j].letters,
                 State                        |-> wss[Len(wss) + 1 - j] ] ]

\* Lines 203-214: the j-th record of newDailyForecast.
HourlyForecastAt(l, y, m, d, hs, rs, ss, es, ws, wss, j) ==
    [ Timestamp              |-> Date(y, m, d, hs[j], l),
      Rating                 |-> rs[j],
      Swells                 |-> ss[j],
      WaveEnergyInKiloJoules |-> es[j],
      Wind |-> [ SpeedInKilometersPerHour     |-> ws[j].speed,
                 DirectionToInDegrees         |-> ws[j].degrees,
                 DirectionFromInCompassPoints |-> ws[j].letters,
                 State                        |-> wss[j] ] ]

NewDailyForecast(l, y, m, d, hs, rs, ss, es, ws, wss) ==
    LET e == DailyLengthError(hs, rs, ss, es, ws, wss)
    IN  IF e # NoError
        THEN [val |-> Nil, err |-> e]
        ELSE [val |-> << [ Timestamp |-> Date(y, m, d, 0, l),
                           Hourly |-> [j \in 1..Len(hs) |->
                               HourlyForecastAt(l, y, m, d, hs, rs, ss, es, ws, wss, j)] ] >>,
              err |-> NoError]

-----------------------------------------------------------------------------
(* newForecasts.                                                           *)

\* CountError with > for # in the comparison of line 118.
CountErrorGreater(ds, hs, rs, ss, es, ws, wss) ==
    IF Len(ds) # Len(hs)
    THEN << "days and hours must have equal number of elements" >>
    ELSE IF Len(ds) # Len(rs)
    THEN << "days and ratings must have equal number of elements" >>
    ELSE IF Len(ds) # Len(ss)
    THEN << "days and swells must have equal number of elements" >>
    ELSE IF Len(ds) # Len(es)
    THEN << "days and wave energies must have equal number of elements" >>
    ELSE IF Len(ds) # Len(ws)
    THEN << "days and winds must have equal number of elements" >>
    ELSE IF Len(ds) > Len(wss)
    THEN << "days and wind states must have equal number of elements" >>
    ELSE NoError

\* Lines 103-120: the count checks of newForecasts.
CountError(ds, hs, rs, ss, es, ws, wss) ==
    IF Len(ds) # Len(hs)
    THEN << "days and hours must have equal number of elements" >>
    ELSE IF Len(ds) # Len(rs)
    THEN << "days and ratings must have equal number of elements" >>
    ELSE IF Len(ds) # Len(ss)
    THEN << "days and swells must have equal number of elements" >>
    ELSE IF Len(ds) # Len(es)
    THEN << "days and wave energies must have equal number of elements" >>
    ELSE IF Len(ds) # Len(ws)
    THEN << "days and winds must have equal number of elements" >>
    ELSE IF Len(ds) # Len(wss)
    THEN << "days and wind states must have equal number of elements" >>
    ELSE NoError

\* The rollover test of line 131.
RollsOver(previousDay, day) == previousDay > day

\* AdvanceMonth without the increment of line 135.
AdvanceMonthNoIncrement(m) ==
    IF m + 1 > December THEN January ELSE m

\* Lines 132-135: the running month after a rollover.
AdvanceMonth(m) ==
    LET m0 == IF m + 1 > December THEN January ELSE m
    IN  m0 + 1

\* Lines 138-140: the running year.
AdvanceYear(y, previousMonth, m) ==
    IF previousMonth > m THEN y + 1 ELSE y

\* Line 145: the year handed to newDailyForecast.
DailyYear(issued, runningYear) == issued.year

\* Lines 103-128: the count checks and the initialisation of the locals.
NewForecastsBegin ==
    /\ pc = "newForecasts"
    /\ LET e == CountError(days, hours, ratings, swells, waveEnergies, winds,
                           windStates)
       IN  IF e # NoError
           THEN /\ result' = Nil
                /\ err' = e
                /\ pc' = "done"
                /\ UNCHANGED << i, year, month, previous, forecasts >>
           ELSE /\ forecasts' = << >>
                /\ year' = issuedAt.year
                /\ month' = issuedAt.month
                /\ previous' = Nil
                /\ i' = 1
                /\ pc' = "loop"
                /\ UNCHANGED << result, err >>
    /\ UNCHANGED << input, queries, panicked, args >>

\* Lines 129-161: one iteration of the loop over the day-blocks.
NewForecastsIterate ==
    /\ pc = "loop"
    /\ i <= Len(days)
    /\ LET m1 == IF previous # Nil /\ RollsOver(previous[1].Timestamp.day, days[i])
                 THEN AdvanceMonth(month)
                 ELSE month
           y1 == IF previous # Nil
                 THEN AdvanceYear(year, previous[1].Timestamp.month, m1)
                 ELSE year
           f  == NewDailyForecast(issuedAt.loc, DailyYear(issuedAt, y1), m1, days[i],
                                  hours[i],
                                  ratings[i], swells[i], waveEnergies[i],
                                  winds[i], windStates[i])
       IN  /\ month' = m1
           /\ year' = y1
           /\ IF f.err # NoError
              THEN /\ result' = Nil
                   /\ err' = << "could not create forecast" >> \o f.err
                   /\ pc' = "done"
                   /\ UNCHANGED << i, previous, forecasts >>
              ELSE /\ forecasts' = Append(forecasts, f.val[1])
                   /\ previous' = f.val
                   /\ i' = i + 1
                   /\ UNCHANGED << pc, result, err >>
    /\ UNCHANGED << input, queries, panicked, args >>

\* Lines 163-166: the successful return.
NewForecastsReturn ==
    /\ pc = "loop"
    /\ i > Len(days)
    /\ result' = << [IssuedAt |-> issuedAt, Daily |-> forecasts] >>
    /\ err' = NoError
    /\ pc' = "done"
    /\ UNCHANGED << input, queries, panicked, args, i, year, month, previous, forecasts >>

NextNewForecasts ==
    \/ NewForecastsBegin
    \/ NewForecastsIterate
    \/ NewForecastsReturn

-----------------------------------------------------------------------------
(* Strings.  A Go string is the sequence of its pieces: single characters  *)
(* where the code looks at characters (numerals, clock periods), and whole  *)
(* words elsewhere (class names, separated by the piece " ").              *)

Digits == <<"0", "1", "2", "3", "4", "5", "6", "7", "8", "9">>

IsDigit(c) == \E k \in 1..Len(Digits) : Digits[k] = c

DigitValue(c) == (CHOOSE k \in 1..Len(Digits) : Digits[k] = c) - 1

RECURSIVE DecimalValue(_)
DecimalValue(s) ==
    IF s = << >> THEN 0
    ELSE 10 * DecimalValue(SubSeq(s, 1, Len(s) - 1)) + DigitValue(s[Len(s)])

\* strconv.Atoi: an optional sign followed by one or more decimal digits.
Atoi(s) ==
    LET signed == s # << >> /\ s[1] \in {"+", "-"}
        body   == IF signed THEN Tail(s) ELSE s
    IN  IF body = << >> \/ \E k \in 1..Len(body) : ~IsDigit(body[k])
        THEN [ok |-> FALSE, val |-> 0]
        ELSE [ok |-> TRUE,
              val |-> IF signed /\ s[1] = "-" THEN 0 - DecimalValue(body)
                      ELSE DecimalValue(body)]

\* strings.ToUpper, on the letters of the clock periods.
UpperChar(c) ==
    CASE c = "a" -> "A"
      [] c = "m" -> "M"
      [] c = "p" -> "P"
      [] OTHER -> c

ToUpper(s) == [k \in 1..Len(s) |-> UpperChar(s[k])]

\* strings.Contains.
Contains(s, sub) ==
    \E k \in 0..(Len(s) - Len(sub)) : SubSeq(s, k + 1, k + Len(sub)) = sub

-----------------------------------------------------------------------------
(* internal/htmlutil.  A node is the record [type, data, attr, children]   *)
(* of an html.Node: attr is the sequence of its [key, val] attributes and   *)
(* children the sequence FirstChild, FirstChild.NextSibling, ...           *)

AttributeClass == <<"class">>
AttributeAlternateImageText == <<"alt">>
AttributeTransform == <<"transform">>

\* Attribute: the first attribute of the node with the key.
Attribute(n, key) ==
    LET ks == {k \in 1..Len(n.attr) : n.attr[k].key = key}
    IN  IF ks = {}
        THEN [ok |-> FALSE, val |-> << >>]
        ELSE [ok |-> TRUE,
              val |-> n.attr[CHOOSE k \in ks : \A l \in ks : k <= l].val]

AttributeEquals(n, key, value) ==
    With(Attribute(n, key), LAMBDA a : a.ok /\ a.val = value)

AttributeContains(n, key, value) ==
    With(Attribute(n, key), LAMBDA a : a.ok /\ Contains(a.val, value))

ClassEquals(n, value) == AttributeEquals(n, AttributeClass, value)

ClassContains(n, values) ==
    \A k \in 1..Len(values) : AttributeContains(n, AttributeClass, values[k])

\* The find conditions, as data.
WithClassEqual(value) == [cond |-> "classEqual", value |-> value]
WithClassContaining(values) == [cond |-> "classContaining", values |-> values]
WithAttributeEqual(key, value) ==
    [cond |-> "attributeEqual", key |-> key, value |-> value]
WithAttribute(key) == [cond |-> "attribute", key |-> key]

Holds(c, n) ==
    CASE c.cond = "classEqual" -> ClassEquals(n, c.value)
      [] c.cond = "classContaining" -> ClassContains(n, c.values)
      [] c.cond = "attributeEqual" -> AttributeEquals(n, c.key, c.value)
      [] c.cond = "attribute" -> Attribute(n, c.key).ok

matchesConditions(n, conditions) ==
    \A k \in 1..Len(conditions) : Holds(conditions[k], n)

RECURSIVE Find(_, _)
RECURSIVE FindInChildren(_, _, _)
\* Find with the test of the node (lines 28-30) after the loop over the
\* children.
FindChildrenFirst(n, conditions) ==
    FindInChildren(n.children, 1, conditions)
    \o (IF matchesConditions(n, conditions) THEN << n >> ELSE << >>)

Find(n, conditions) ==
    (IF matchesConditions(n, conditions) THEN << n >> ELSE << >>)
    \o FindInChildren(n.children, 1, conditions)

FindInChildren(cs, k, conditions) ==
    IF k > Len(cs) THEN << >>
    ELSE Find(cs[k], conditions) \o FindInChildren(cs, k + 1, conditions)

RECURSIVE FindOne(_, _)
RECURSIVE FindOneInChildren(_, _, _)
\* FindOne with the test of the node (lines 42-44) after the loop over the
\* children.
FindOneChildrenFirst(n, conditions) ==
    With(FindOneInChildren(n.children, 1, conditions), LAMBDA target :
        IF target # << >> THEN target
        ELSE IF matchesConditions(n, conditions) THEN << n >>
        ELSE << >>)

\* FindOne: << >> for (nil, false), << node >> for (node, true).
FindOne(n, conditions) ==
    IF matchesConditions(n, conditions) THEN << n >>
    ELSE FindOneInChildren(n.children, 1, conditions)

FindOneInChildren(cs, k, conditions) ==
    IF k > Len(cs) THEN << >>
    ELSE With(FindOne(cs[k], conditions), LAMBDA target :
             IF target # << >> THEN target
             ELSE FindOneInChildren(cs, k + 1, conditions))

RECURSIVE Preorder(_)
RECURSIVE PreorderOfChildren(_, _)
\* The nodes in the order ForEach hands them to its statement.
Preorder(n) == << n >> \o PreorderOfChildren(n.children, 1)

PreorderOfChildren(cs, k) ==
    IF k > Len(cs) THEN << >>
    ELSE Preorder(cs[k]) \o PreorderOfChildren(cs, k + 1)

\* n.FirstChild: << >> for nil.
FirstChild(n) == IF n.children = << >> THEN << >> ELSE << n.children[1] >>

-----------------------------------------------------------------------------
(* forecast.go: the class names, attribute keys and row names.             *)

classBreakHeaderIssued == <<"break-header__issued">>
classForecastTableBasic == <<"forecast-table__basic">>
classForecastTableRow == <<"forecast-table__row">>
classForecastTableCell == <<"forecast-table__cell">>
classForecastTableValue == <<"forecast-table__value">>
classForecastTableTime == <<"forecast-table-time">>
classForecastTableDays == <<"forecast-table-days">>
classForecastTableRating == <<"forecast-table-rating">>
classIsDayEnd == <<"is-day-end">>
classWindIcon == <<"wind-icon">>
classWindLetters == <<"wind-icon", "__letters">>
classWindIconArrow == <<"wind-icon", "__arrow">>

attributeDataRowName == <<"data-row-name">>
attributeDataSwellState == <<"data-swell-state">>
attributeDataSpeed == <<"data-speed">>

dataRowNameDays == <<"days">>
dataRowNameTime == <<"time">>
dataRowNameRating == <<"rating">>
dataRowNameWaveHeight == <<"wave-height">>
dataRowNameEnergy == <<"energy">>
dataRowNameWind == <<"wind">>
dataRowNameWindState == <<"wind-state">>

transformRotatePrefix == <<"rotate(">>
transformRotateSuffix == <<")">>

\* The result of a call: the value, the error, and whether the call
\* panicked instead of returning.
Ok(v) == [val |-> v, err |-> NoError, panic |-> FALSE]
Err(e) == [val |-> << >>, err |-> e, panic |-> FALSE]
Panic == [val |-> << >>, err |-> NoError, panic |-> TRUE]
\* errors.Wrap: nil for a nil error, msg in front of the chain otherwise.
Wrap(msg, r) == IF r.err = NoError THEN r ELSE [r EXCEPT !.err = << msg >> \o r.err]

-----------------------------------------------------------------------------
(* forecast.go: the parsers of days and hours.                             *)

parseDay(s) ==
    With(Atoi(s), LAMBDA a :
        IF ~a.ok THEN Err(<< "not integer" >>)
        ELSE IF a.val < 0 \/ a.val > 31 THEN Err(<< "not month day" >>)
        ELSE Ok(a.val))

\* parseTwelveClockHour with the lower limit of line 537 at 0.
parseTwelveClockHourFromZero(s) ==
    With(Atoi(s), LAMBDA a :
        IF ~a.ok THEN Err(<< "not integer" >>)
        ELSE IF a.val < 0 \/ a.val > 12 THEN Err(<< "not 12 clock hour" >>)
        ELSE Ok(a.val))

parseTwelveClockHour(s) ==
    With(Atoi(s), LAMBDA a :
        IF ~a.ok THEN Err(<< "not integer" >>)
        ELSE IF a.val < 1 \/ a.val > 12 THEN Err(<< "not 12 clock hour" >>)
        ELSE Ok(a.val))

beforeMidday == 0
afterMidday == 1

parseClockPeriod(s) ==
    With(ToUpper(s), LAMBDA u :
        IF u = <<"A", "M">> THEN Ok(beforeMidday)
        ELSE IF u = <<"P", "M">> THEN Ok(afterMidday)
        ELSE Err(<< "invalid clock period" >>))

\* toTwentyFourClockHour without the special case of line 569.
toTwentyFourClockHourNoNoon(hour, p) ==
    IF p = beforeMidday
    THEN (IF hour = 12 THEN 0 ELSE hour)
    ELSE hour + 12

toTwentyFourClockHour(hour, p) ==
    IF p = beforeMidday
    THEN (IF hour = 12 THEN 0 ELSE hour)
    ELSE IF hour = 12 THEN hour
    ELSE hour + 12

scrapeDay(n) ==
    With(Find(n, << WithClassEqual(classForecastTableValue) >>), LAMBDA nodes :
        IF Len(nodes) # 2 THEN Err(<< "unexpected table values" >>)
        ELSE IF FirstChild(nodes[2]) = Nil
        THEN Err(<< "could not find day text node" >>)
        ELSE Wrap("could not parse day", parseDay(FirstChild(nodes[2])[1].data)))

scrapeHour(n) ==
    With(Find(n, << WithClassEqual(classForecastTableValue) >>), LAMBDA nodes :
        IF Len(nodes) # 2 THEN Err(<< "unexpected table values" >>)
        ELSE IF FirstChild(nodes[1]) = Nil
        THEN Err(<< "could not find hour text node" >>)
        ELSE
        With(parseTwelveClockHour(FirstChild(nodes[1])[1].data), LAMBDA hour :
            IF hour.err # NoError THEN Wrap("could not parse hour", hour)
            ELSE IF FirstChild(nodes[2]) = Nil
            THEN Err(<< "could not find clock period text node" >>)
            ELSE
            With(parseClockPeriod(FirstChild(nodes[2])[1].data), LAMBDA period :
                IF period.err # NoError
                THEN Wrap("could not parse clock period", period)
                ELSE Ok(toTwentyFourClockHour(hour.val, period.val)))))

-----------------------------------------------------------------------------
(* forecast.go: the scrapers of the rating, swell, wave energy, wind and   *)
(* wind state cells.                                                       *)

\* The letters of the special values of strconv.ParseFloat, in lower case.
LowerChar(c) ==
    CASE c = "N" -> "n"
      [] c = "A" -> "a"
      [] c = "I" -> "i"
      [] c = "F" -> "f"
      [] c = "T" -> "t"
      [] c = "Y" -> "y"
      [] OTHER -> c

\* strconv.ParseFloat (the function special of strconv): "nan" without a
\* sign, and "inf" or "infinity" with an optional sign, in any case of the
\* letters, are the values NaN, +Inf and -Inf.
Special(s) ==
    LET low    == [k \in 1..Len(s) |-> LowerChar(s[k])]
        signed == low # << >> /\ low[1] \in {"+", "-"}
        body   == IF signed THEN Tail(low) ELSE low
    IN  IF low = <<"n", "a", "n">> THEN "NaN"
        ELSE IF body \in {<<"i", "n", "f">>, <<"i", "n", "f", "i", "n", "i", "t", "y">>}
        THEN (IF signed /\ low[1] = "-" THEN "-Inf" ELSE "+Inf")
        ELSE "finite"

\* strconv.ParseFloat on the special values and on decimal numerals: an
\* optional sign, digits, and at most one point. A finite value is counted in
\* tenths (the numerals of the model have at most one digit after the point
\* and neither an exponent nor a base prefix).
ParseFloat(s) ==
    LET signed == s # << >> /\ s[1] \in {"+", "-"}
        body   == IF signed THEN Tail(s) ELSE s
        points == {k \in 1..Len(body) : body[k] = "."}
        cut    == IF points = {} THEN Len(body) + 1 ELSE CHOOSE k \in points : TRUE
        whole  == SubSeq(body, 1, cut - 1)
        frac   == SubSeq(body, cut + 1, Len(body))
        tenths == 10 * DecimalValue(whole)
                  + (IF frac = << >> THEN 0 ELSE DigitValue(frac[1]))
    IN  IF Special(s) # "finite"
        THEN [ok |-> TRUE, class |-> Special(s), val |-> Special(s)]
        ELSE IF \/ Cardinality(points) > 1
                \/ whole \o frac = << >>
                \/ \E k \in 1..Len(body) : ~IsDigit(body[k]) /\ body[k] # "."
        THEN [ok |-> FALSE, class |-> "finite", val |-> 0]
        ELSE [ok |-> TRUE, class |-> "finite",
              val |-> IF signed /\ s[1] = "-" THEN 0 - tenths ELSE tenths]

\* The comparisons f < bound and f > bound of float64, for a bound in tenths:
\* both are false for NaN.
Less(f, bound) ==
    CASE f.class = "finite" -> f.val < bound
      [] f.class = "-Inf" -> TRUE
      [] OTHER -> FALSE

Greater(f, bound) ==
    CASE f.class = "finite" -> f.val > bound
      [] f.class = "+Inf" -> TRUE
      [] OTHER -> FALSE

\* parseRating with >= for > in the upper limit of line 623.
parseRatingBelowTen(s) ==
    With(Atoi(s), LAMBDA a :
        IF ~a.ok THEN Err(<< "not integer" >>)
        ELSE IF a.val < 0 \/ a.val >= 10 THEN Err(<< "invalid rating" >>)
        ELSE Ok(a.val))

parseRating(s) ==
    With(Atoi(s), LAMBDA a :
        IF ~a.ok THEN Err(<< "not integer" >>)
        ELSE IF a.val < 0 \/ a.val > 10 THEN Err(<< "invalid rating" >>)
        ELSE Ok(a.val))

\* Lines 591-599: the rating of a cell, read from its first child.  Attribute
\* reads n.Attr of the node it is given: with no first child it dereferences
\* a nil pointer.
scrapeRating(n) ==
    IF FirstChild(n) = Nil THEN Panic
    ELSE
    With(Attribute(FirstChild(n)[1], AttributeAlternateImageText), LAMBDA ratingAttr :
        IF ~ratingAttr.ok THEN Err(<< "could not find rating attribute" >>)
        ELSE Wrap("could not parse rating", parseRating(ratingAttr.val)))

\* encoding/json on a swell payload.  The text is the sequence of its
\* tokens: [tok |-> "["], [tok |-> "]"], [tok |-> ","], [tok |-> "null"],
\* and [tok |-> "object", quote, period, angle, letters, height] for an object
\* whose strings are written with that quote.  Only double quotes are JSON.
IsElement(t) == t.tok = "null" \/ (t.tok = "object" /\ t.quote = "double")

JSONArray(b) ==
    /\ Len(b) >= 2
    /\ b[1].tok = "["
    /\ b[Len(b)].tok = "]"
    /\ LET inner == SubSeq(b, 2, Len(b) - 1)
       IN  \/ inner = << >>
           \/ /\ Len(inner) % 2 = 1
              /\ \A k \in 1..Len(inner) :
                    IF k % 2 = 1 THEN IsElement(inner[k]) ELSE inner[k].tok = ","

\* The payload []*swell: << >> for a nil entry, << object >> otherwise.
JSONEntries(b) ==
    LET inner == SubSeq(b, 2, Len(b) - 1)
    IN  [k \in 1..((Len(inner) + 1) \div 2) |->
            IF inner[2 * k - 1].tok = "null" THEN << >> ELSE << inner[2 * k - 1] >>]

RECURSIVE SwellsOfPayloadUntilNil(_)
\* SwellsOfPayload with break for continue at line 689.
SwellsOfPayloadUntilNil(payload) ==
    IF payload = << >> \/ payload[1] = << >> THEN << >>
    ELSE << [ PeriodInSeconds              |-> payload[1][1].period,
              DirectionToInDegrees         |-> payload[1][1].angle,
              DirectionFromInCompassPoints |-> payload[1][1].letters,
              WaveHeightInMeters           |-> payload[1][1].height ] >>
         \o SwellsOfPayloadUntilNil(Tail(payload))

RECURSIVE SwellsOfPayload(_)
\* Lines 687-699: the non-nil entries of the payload, in order.
SwellsOfPayload(payload) ==
    IF payload = << >> THEN << >>
    ELSE (IF payload[1] = << >> THEN << >>
          ELSE << [ PeriodInSeconds              |-> payload[1][1].period,
                    DirectionToInDegrees         |-> payload[1][1].angle,
                    DirectionFromInCompassPoints |-> payload[1][1].letters,
                    WaveHeightInMeters           |-> payload[1][1].height ] >>)
         \o SwellsOfPayload(Tail(payload))

unmarshalSwells(b) ==
    IF b = << [tok |-> "null"] >> THEN Ok(<< >>)
    ELSE IF ~JSONArray(b) THEN Err(<< "could not unmarshal payload" >>)
    ELSE Ok(SwellsOfPayload(JSONEntries(b)))

scrapeHourlySwells(n) ==
    With(Attribute(n, attributeDataSwellState), LAMBDA attr :
        IF ~attr.ok THEN Err(<< "could not find swells attribute" >>)
        ELSE Wrap("could not unmarshal swells", unmarshalSwells(attr.val)))

parseWaveEnergy(s) ==
    With(ParseFloat(s), LAMBDA f :
        IF ~f.ok THEN Err(<< "not float" >>)
        ELSE IF Less(f, 0) THEN Err(<< "invalid wave energy" >>)
        ELSE Ok(f.val))

scrapeWaveEnergy(n) ==
    IF FirstChild(n) = Nil THEN Err(<< "could not find wave energy node" >>)
    ELSE IF FirstChild(FirstChild(n)[1]) = Nil
    THEN Err(<< "could not find wave energy text node" >>)
    ELSE Wrap("could not parse wave energy",
              parseWaveEnergy(FirstChild(FirstChild(n)[1])[1].data))

parseWindSpeed(s) ==
    With(ParseFloat(s), LAMBDA f :
        IF ~f.ok THEN Err(<< "not float" >>)
        ELSE IF Less(f, 0) THEN Err(<< "invalid wind speed" >>)
        ELSE Ok(f.val))

\* The upper limit of line 889, in degrees.
FullCircle == 360

parseWindDirectionDegrees(s) ==
    With(ParseFloat(s), LAMBDA f :
        IF ~f.ok THEN Err(<< "not float" >>)
        ELSE IF Less(f, 0) \/ Greater(f, 10 * FullCircle)
        THEN Err(<< "invalid wind direction degrees" >>)
        ELSE Ok(f.val))

\* strings.TrimPrefix and strings.TrimSuffix.
TrimPrefix(s, prefix) ==
    IF Len(s) >= Len(prefix) /\ SubSeq(s, 1, Len(prefix)) = prefix
    THEN SubSeq(s, Len(prefix) + 1, Len(s))
    ELSE s

TrimSuffix(s, suffix) ==
    IF Len(s) >= Len(suffix) /\ SubSeq(s, Len(s) - Len(suffix) + 1, Len(s)) = suffix
    THEN SubSeq(s, 1, Len(s) - Len(suffix))
    ELSE s

scrapeWindDirectionDegrees(n) ==
    With(FindOne(n, << WithClassEqual(classWindIconArrow) >>), LAMBDA arrowNode :
        IF arrowNode = Nil
        THEN Err(<< "could not find wind direction arrow node" >>)
        ELSE
        With(Attribute(arrowNode[1], AttributeTransform), LAMBDA attr :
            IF ~attr.ok THEN Err(<< "could not find transform attribute" >>)
            ELSE Wrap("could not parse wind direction degrees",
                      parseWindDirectionDegrees(
                          TrimSuffix(TrimPrefix(attr.val, transformRotatePrefix),
                                     transformRotateSuffix)))))

scrapeWind(n) ==
    With(FindOne(n, << WithClassEqual(classWindIcon) >>), LAMBDA iconNode :
    IF iconNode = Nil THEN Err(<< "could not find wind icon node" >>)
    ELSE
    With(Attribute(iconNode[1], attributeDataSpeed), LAMBDA speedAttr :
    IF ~speedAttr.ok THEN Err(<< "could not find wind speed attribute" >>)
    ELSE
    With(parseWindSpeed(speedAttr.val), LAMBDA speed :
    IF speed.err # NoError THEN Wrap("could not parse wind speed", speed)
    ELSE
    With(scrapeWindDirectionDegrees(iconNode[1]), LAMBDA degrees :
    IF degrees.err # NoError
    THEN Wrap("could not scrape wind direction degrees", degrees)
    ELSE
    With(FindOne(iconNode[1], << WithClassEqual(classWindLetters) >>),
         LAMBDA lettersNode :
    IF lettersNode = Nil
    THEN Err(<< "could not find wind direction letters node" >>)
    ELSE IF FirstChild(lettersNode[1]) = Nil
    THEN Err(<< "could not find wind direction letters text node" >>)
    ELSE Ok([ speed   |-> speed.val,
              degrees |-> degrees.val,
              letters |-> FirstChild(lettersNode[1])[1].data ]))))))

RECURSIVE JoinText(_, _)
\* Lines 947-955: the data of the text nodes, joined in the order of the walk.
JoinText(nodes, k) ==
    IF k > Len(nodes) THEN << >>
    ELSE (IF nodes[k].type = "text" THEN nodes[k].data ELSE << >>)
         \o JoinText(nodes, k + 1)

scrapeWindState(n) ==
    With(JoinText(Preorder(n), 1), LAMBDA state :
        IF state = << >> THEN Err(<< "invalid wind state" >>)
        ELSE Ok(state))

-----------------------------------------------------------------------------
(* forecast.go: the row scrapers.  The seven scrapers share one shape:     *)
(* find the row, walk it with ForEach, scrape every node that is a cell,   *)
(* and (all but scrapeDays) close the block at a cell marked is-day-end.   *)

RowKinds ==
    << "days", "hours", "ratings", "swells", "waveEnergies", "winds", "windStates" >>

RowConditions(kind) ==
    CASE kind = "days" ->
            << WithClassContaining(<< classForecastTableRow, classForecastTableDays >>),
               WithAttributeEqual(attributeDataRowName, dataRowNameDays) >>
      [] kind = "hours" ->
            << WithClassContaining(<< classForecastTableRow, classForecastTableTime >>),
               WithAttributeEqual(attributeDataRowName, dataRowNameTime) >>
      [] kind = "ratings" ->
            << WithClassContaining(<< classForecastTableRow, classForecastTableRating >>),
               WithAttributeEqual(attributeDataRowName, dataRowNameRating) >>
      [] kind = "swells" ->
            << WithClassEqual(classForecastTableRow),
               WithAttributeEqual(attributeDataRowName, dataRowNameWaveHeight) >>
      [] kind = "waveEnergies" ->
            << WithClassEqual(classForecastTableRow),
               WithAttributeEqual(attributeDataRowName, dataRowNameEnergy) >>
      [] kind = "winds" ->
            << WithClassEqual(classForecastTableRow),
               WithAttributeEqual(attributeDataRowName, dataRowNameWind) >>
      [] kind = "windStates" ->
            << WithClassEqual(classForecastTableRow),
               WithAttributeEqual(attributeDataRowName, dataRowNameWindState) >>

RowNotFound(kind) ==
    CASE kind = "days" -> "could not find days node"
      [] kind = "hours" -> "could not find hours node"
      [] kind = "ratings" -> "could not find ratings node"
      [] kind = "swells" -> "could not find swells node"
      [] kind = "waveEnergies" -> "could not find wave energies node"
      [] kind = "winds" -> "could not find winds node"
      [] kind = "windStates" -> "could not find wind states node"

\* The value of one cell, with the error the statement returns for it.
ScrapeCell(kind, n) ==
    CASE kind = "days" -> Wrap("could not scrape day", scrapeDay(n))
      [] kind = "hours" -> Wrap("could not scrape hour", scrapeHour(n))
      [] kind = "ratings" -> scrapeRating(n)
      [] kind = "swells" -> Wrap("could not scrape hourly swells", scrapeHourlySwells(n))
      [] kind = "waveEnergies" -> Wrap("could not scrape wave energy", scrapeWaveEnergy(n))
      [] kind = "winds" -> Wrap("could not scrape wind", scrapeWind(n))
      [] kind = "windStates" -> Wrap("could not scrape wind state", scrapeWindState(n))

\* ClosesBlock without the test of the is-day-end class.
ClosesBlockEveryCell(kind, n) == kind # "days"

\* ClosesBlock with the test of the is-day-end class turned around.
ClosesBlockAtUnmarked(kind, n) == kind # "days" /\ ~ClassContains(n, << classIsDayEnd >>)

\* Whether the statement closes the day-block after the cell.
ClosesBlock(kind, n) == kind # "days" /\ ClassContains(n, << classIsDayEnd >>)

\* The class of the nodes at which the statement under test fails, and the
\* attribute that tells the nodes of a tree under test apart.
classFails == <<"y">>
attributeID == <<"id">>

\* A statement to test ForEach with: it records the node in all, and fails
\* at a node of the class classFails with an error that names the node.
Probe(n, acc) ==
    [all |-> Append(acc.all, n), cur |-> acc.cur,
     err |-> IF ClassEquals(n, classFails)
             THEN << "failed at" >> \o Attribute(n, attributeID).val
             ELSE NoError,
     panic |-> FALSE]

\* surfforecast/forecast.go: the signal a statement returns to end the walk
\* early.
ErrForEachStopped == << "for each stopped" >>

\* n.LastChild: << >> for nil.
LastChild(n) == IF n.children = << >> THEN << >> ELSE << n.children[Len(n.children)] >>

\* parseClockPeriod of the package surfforecast: the text as it is written.
parseClockPeriodExact(s) ==
    IF s = <<"A", "M">> THEN Ok(beforeMidday)
    ELSE IF s = <<"P", "M">> THEN Ok(afterMidday)
    ELSE Err(<< "invalid clock period" >>)

\* scrapeHour of the package surfforecast: the hour in the first child of
\* the cell, the clock period in the last.
scrapeHourOfChildren(n) ==
    IF FirstChild(n) = Nil THEN Err(<< "could not find hour container node" >>)
    ELSE IF FirstChild(FirstChild(n)[1]) = Nil
    THEN Err(<< "could not find hour text node" >>)
    ELSE
    With(parseTwelveClockHour(FirstChild(FirstChild(n)[1])[1].data), LAMBDA hour :
        IF hour.err # NoError THEN Wrap("could not parse hour", hour)
        ELSE IF LastChild(n) = Nil THEN Err(<< "could not find clock period node" >>)
        ELSE IF FirstChild(LastChild(n)[1]) = Nil
        THEN Err(<< "could not find clock period text node" >>)
        ELSE
        With(parseClockPeriodExact(FirstChild(LastChild(n)[1])[1].data), LAMBDA period :
            IF period.err # NoError THEN Wrap("could not parse clock period", period)
            ELSE Ok(toTwentyFourClockHour(hour.val, period.val))))

\* FirstDayHours without the return of the stop signal at a cell that
\* closes the day.
FirstDayHoursNeverStopping(n, acc) ==
    IF ~ClassContains(n, << classForecastTableCell >>)
    THEN [all |-> acc.all, cur |-> acc.cur, err |-> NoError, panic |-> FALSE]
    ELSE
    With(Wrap("could not scrape hour", scrapeHourOfChildren(n)), LAMBDA r :
        IF r.err # NoError
        THEN [all |-> acc.all, cur |-> acc.cur, err |-> r.err, panic |-> FALSE]
        ELSE [all |-> Append(acc.all, r.val), cur |-> acc.cur, err |-> NoError,
              panic |-> FALSE])

\* The statement of scrapeFirstDayHours: the hour of every cell, and the
\* stop signal after the first cell that closes the day.
FirstDayHours(n, acc) ==
    IF ~ClassContains(n, << classForecastTableCell >>)
    THEN [all |-> acc.all, cur |-> acc.cur, err |-> NoError, panic |-> FALSE]
    ELSE
    With(Wrap("could not scrape hour", scrapeHourOfChildren(n)), LAMBDA r :
        IF r.err # NoError
        THEN [all |-> acc.all, cur |-> acc.cur, err |-> r.err, panic |-> FALSE]
        ELSE [all |-> Append(acc.all, r.val), cur |-> acc.cur,
              err |-> IF ClassContains(n, << classIsDayEnd >>) THEN ErrForEachStopped
                      ELSE NoError,
              panic |-> FALSE])

\* The statement handed to ForEach, on the accumulators all (the closed
\* blocks; for the days the values) and cur (the open block).
Statement(kind, n, acc) ==
    IF kind = "probe" THEN Probe(n, acc)
    ELSE IF kind = "firstDayHours" THEN FirstDayHours(n, acc)
    ELSE IF ~ClassContains(n, << classForecastTableCell >>)
    THEN [all |-> acc.all, cur |-> acc.cur, err |-> NoError, panic |-> FALSE]
    ELSE
    With(ScrapeCell(kind, n), LAMBDA r :
        IF r.panic \/ r.err # NoError
        THEN [all |-> acc.all, cur |-> acc.cur, err |-> r.err, panic |-> r.panic]
        ELSE IF kind = "days"
        THEN [all |-> Append(acc.all, r.val), cur |-> acc.cur,
              err |-> NoError, panic |-> FALSE]
        ELSE IF ClosesBlock(kind, n)
        THEN [all |-> Append(acc.all, Append(acc.cur, r.val)), cur |-> << >>,
              err |-> NoError, panic |-> FALSE]
        ELSE [all |-> acc.all, cur |-> Append(acc.cur, r.val),
              err |-> NoError, panic |-> FALSE])

RECURSIVE ForEach(_, _, _)
RECURSIVE ForEachChildren(_, _, _, _)
\* ForEachChildren without the return of lines 167-169: the loop goes on to
\* the next sibling after an error.
ForEachChildrenPastErrors(kind, cs, k, acc) ==
    IF k > Len(cs) THEN acc
    ELSE With(ForEach(kind, cs[k], acc), LAMBDA r :
             ForEachChildren(kind, cs, k + 1, r))

\* ForEach, with the statement named by its kind: the statement on the node
\* (lines 161-163), then the loop over the children.
ForEach(kind, n, acc) ==
    With(Statement(kind, n, acc), LAMBDA r :
        IF r.panic \/ r.err # NoError THEN r
        ELSE ForEachChildren(kind, n.children, 1, r))

\* The loop of lines 165-169 from the k-th child on, and the return of line
\* 171.
ForEachChildren(kind, cs, k, acc) ==
    IF k > Len(cs) THEN acc
    ELSE With(ForEach(kind, cs[k], acc), LAMBDA r :
             IF r.panic \/ r.err # NoError THEN r
             ELSE ForEachChildren(kind, cs, k + 1, r))

\* ScrapeRow with the open block appended to the result after the walk.
ScrapeRowKeepingOpenBlock(kind, n) ==
    With(FindOne(n, RowConditions(kind)), LAMBDA rowNode :
        IF rowNode = Nil THEN Err(<< RowNotFound(kind) >>)
        ELSE With(ForEach(kind, rowNode[1], [all |-> << >>, cur |-> << >>]),
                  LAMBDA w : IF w.panic THEN Panic
                             ELSE IF w.err # NoError THEN Err(w.err)
                             ELSE IF kind # "days" /\ w.cur # << >>
                             THEN Ok(Append(w.all, w.cur))
                             ELSE Ok(w.all)))

ScrapeRow(kind, n) ==
    With(FindOne(n, RowConditions(kind)), LAMBDA rowNode :
        IF rowNode = Nil THEN Err(<< RowNotFound(kind) >>)
        ELSE With(ForEach(kind, rowNode[1], [all |-> << >>, cur |-> << >>]),
                  LAMBDA w : IF w.panic THEN Panic
                             ELSE IF w.err # NoError THEN Err(w.err)
                             ELSE Ok(w.all)))

\* Walk with the stop signal returned to the caller like any other error.
WalkReturningStop(kind, n, acc) == ForEach(kind, n, acc)

\* The tree walk surfforecast/forecast.go is written against: the walk of
\* ForEach, where the stop signal of the statement ends the walk as an error
\* does and is not returned to the caller.
Walk(kind, n, acc) ==
    With(ForEach(kind, n, acc), LAMBDA r :
        IF r.err = ErrForEachStopped THEN [r EXCEPT !.err = NoError] ELSE r)

\* surfforecast/forecast.go: scrapeFirstDayHours.
scrapeFirstDayHours(n) ==
    With(FindOne(n, RowConditions("hours")), LAMBDA hoursNode :
        IF hoursNode = Nil THEN Err(<< "could not find hours node" >>)
        ELSE With(Walk("firstDayHours", hoursNode[1], [all |-> << >>, cur |-> << >>]),
                  LAMBDA w : IF w.err # NoError
                             THEN Err(<< "could not scrape hours" >> \o w.err)
                             ELSE Ok(w.all)))

scrapeDays(n) == ScrapeRow("days", n)
scrapeHours(n) == ScrapeRow("hours", n)
scrapeRatings(n) == ScrapeRow("ratings", n)
scrapeSwells(n) == ScrapeRow("swells", n)
scrapeWaveEnergies(n) == ScrapeRow("waveEnergies", n)
scrapeWinds(n) == ScrapeRow("winds", n)
scrapeWindStates(n) == ScrapeRow("windStates", n)

-----------------------------------------------------------------------------
(* forecast.go: scrapeIssueTimestamp.                                      *)

RECURSIVE Split(_, _)
\* strings.Split(s, sep) for a separator of one piece.
Split(s, sep) ==
    LET at == {k \in 1..Len(s) : s[k] = sep}
    IN  IF at = {} THEN << s >>
        ELSE LET k == CHOOSE x \in at : \A y \in at : x <= y
             IN  << SubSeq(s, 1, k - 1) >> \o Split(SubSeq(s, k + 1, Len(s)), sep)

MonthNames ==
    << "Jan", "Feb", "Mar", "Apr", "May", "Jun", "Jul", "Aug", "Sep", "Oct", "Nov",
       "Dec" >>

parseMonthShort(s) ==
    IF \E m \in 1..Len(MonthNames) : s = << MonthNames[m] >>
    THEN Ok(CHOOSE m \in 1..Len(MonthNames) : s = << MonthNames[m] >>)
    ELSE Err(<< "invalid short month" >>)

\* tz.GetTimezones: the lookup is the function tz from the abbreviations it
\* knows to their candidates.
GetTimezones(lookup, abbr) ==
    IF abbr \in DOMAIN lookup THEN Ok(lookup[abbr]) ELSE Err(<< "invalid short name" >>)

\* The zones time.LoadLocation can load.
LoadableLocations == {"UTC", "Asia/Kuala_Lumpur", "Australia/Sydney"}

LoadLocation(name) ==
    IF name \in LoadableLocations THEN Ok(name) ELSE Err(<< "unknown time zone" >>)

\* FirstCandidate with the last of the candidates for the first.
LastCandidate(timezones) == timezones[Len(timezones)]

\* Line 364: timezone := timezones[0].
FirstCandidate(timezones) == timezones[1]

scrapeIssueTimestamp(n, lookup) ==
    With(FindOne(n, << WithClassEqual(classBreakHeaderIssued) >>), LAMBDA issueNode :
    IF issueNode = Nil THEN Err(<< "could not find issue node" >>)
    ELSE IF FirstChild(issueNode[1]) = Nil
    THEN Err(<< "could not find issue text node" >>)
    ELSE
    With(Split(FirstChild(issueNode[1])[1].data, " "), LAMBDA parts :
    IF Len(parts) # 12 THEN Err(<< "unexpected issue text" >>)
    ELSE
    With(parseTwelveClockHour(parts[6]), LAMBDA hour :
    IF hour.err # NoError THEN Wrap("could not parse issue hour", hour)
    ELSE
    With(parseClockPeriod(parts[7]), LAMBDA clockPeriod :
    IF clockPeriod.err # NoError
    THEN Wrap("could not parse clock period", clockPeriod)
    ELSE
    With(parseDay(parts[9]), LAMBDA day :
    IF day.err # NoError THEN Wrap("could not parse issue day", day)
    ELSE
    With(parseMonthShort(parts[10]), LAMBDA monthOfIssue :
    IF monthOfIssue.err # NoError
    THEN Wrap("could not parse issue month", monthOfIssue)
    ELSE
    With(Atoi(parts[11]), LAMBDA yearOfIssue :
    IF ~yearOfIssue.ok THEN Err(<< "issue year not integer" >>)
    ELSE
    With(GetTimezones(lookup, parts[12]), LAMBDA timezones :
    IF timezones.err # NoError
    THEN Wrap("could not find timezones for abbreviation", timezones)
    ELSE IF Len(timezones.val) = 0 THEN Err(<< "0 timezones found for abbreviation" >>)
    ELSE
    With(LoadLocation(FirstCandidate(timezones.val)), LAMBDA loc :
    IF loc.err # NoError THEN Err(<< "could not find time location" >>)
    ELSE Ok(Date(yearOfIssue.val, monthOfIssue.val, day.val,
                 toTwentyFourClockHour(hour.val, clockPeriod.val), loc.val)))))))))))

-----------------------------------------------------------------------------
(* forecast.go: scrapeForecasts, one action per statement.                 *)

locals == << i, year, month, previous, forecasts >>

\* A statement of scrapeForecasts returns nil and the wrapped error.
ReturnError(r, msg) ==
    /\ result' = Nil
    /\ err' = << msg >> \o r.err
    /\ pc' = "done"
    /\ UNCHANGED panicked

\* Lines 248-251.
ScrapeForecastsIssue ==
    /\ pc = "scrapeForecasts"
    /\ \E r \in {scrapeIssueTimestamp(doc[1], tz)} :
           IF r.err # NoError
           THEN ReturnError(r, "could not scrape issue date") /\ UNCHANGED issuedAt
           ELSE /\ issuedAt' = r.val
                /\ pc' = "findTable"
                /\ UNCHANGED << result, err, panicked >>
    /\ UNCHANGED << input, queries, locals, days, hours, ratings, swells, waveEnergies,
                    winds, windStates >>

TableNode == FindOne(doc[1], << WithClassEqual(classForecastTableBasic) >>)

\* Lines 253-256.
ScrapeForecastsTable ==
    /\ pc = "findTable"
    /\ IF TableNode = Nil
       THEN /\ result' = Nil
            /\ err' = << "could not find table node" >>
            /\ pc' = "done"
       ELSE /\ pc' = "days"
            /\ UNCHANGED << result, err >>
    /\ UNCHANGED << input, queries, panicked, args, locals >>

RowError(kind) ==
    CASE kind = "days" -> "could not scrape days"
      [] kind = "hours" -> "could not scrape hours"
      [] kind = "ratings" -> "could not scrape ratings"
      [] kind = "swells" -> "could not scrape swells"
      [] kind = "waveEnergies" -> "could not scrape wave energies"
      [] kind = "winds" -> "could not scrape winds"
      [] kind = "windStates" -> "could not scrape wind states"

AfterRow(kind) ==
    CASE kind = "days" -> "hours"
      [] kind = "hours" -> "ratings"
      [] kind = "ratings" -> "swells"
      [] kind = "swells" -> "waveEnergies"
      [] kind = "waveEnergies" -> "winds"
      [] kind = "winds" -> "windStates"
      [] kind = "windStates" -> "newForecasts"

\* Lines 258-291: the call of one row scraper and the check of its error.
ScrapeForecastsRow ==
    /\ \E k \in 1..Len(RowKinds) : pc = RowKinds[k]
    /\ \E r \in {ScrapeRow(pc, TableNode[1])} :
           LET Set(kind, old) == IF pc = kind /\ ~r.panic /\ r.err = NoError
                                 THEN r.val ELSE old
           IN  /\ days' = Set("days", days)
               /\ hours' = Set("hours", hours)
               /\ ratings' = Set("ratings", ratings)
               /\ swells' = Set("swells", swells)
               /\ waveEnergies' = Set("waveEnergies", waveEnergies)
               /\ winds' = Set("winds", winds)
               /\ windStates' = Set("windStates", windStates)
               /\ IF r.panic
                  THEN /\ panicked' = TRUE
                       /\ pc' = "done"
                       /\ UNCHANGED << result, err >>
                  ELSE IF r.err # NoError
                  THEN ReturnError(r, RowError(pc))
                  ELSE /\ pc' = AfterRow(pc)
                       /\ UNCHANGED << result, err, panicked >>
    /\ UNCHANGED << input, queries, issuedAt, locals >>

\* scrapeForecasts ends with the call of newForecasts (lines 293-302), whose
\* results it returns as they are.
NextScrapeForecasts ==
    \/ ScrapeForecastsIssue
    \/ ScrapeForecastsTable
    \/ ScrapeForecastsRow
    \/ NewForecastsBegin
    \/ NewForecastsIterate
    \/ NewForecastsReturn

\* scrapeHours called on its own.
ScrapeHoursCall ==
    /\ pc = "scrapeHours"
    /\ \E r \in {scrapeHours(doc[1])} :
           /\ hours' = r.val
           /\ err' = r.err
           /\ panicked' = r.panic
    /\ pc' = "done"
    /\ UNCHANGED << input, queries, issuedAt, days, ratings, swells, waveEnergies, winds,
                    windStates, locals, result >>

-----------------------------------------------------------------------------
(* The arguments newForecasts is called with.  A row of day-blocks is      *)
(* built from its shape, the sequence of the lengths of its blocks; the    *)
(* values depend on the position so that a record can be traced back to    *)
(* the cell it came from.                                                  *)

SeqsUpTo(S, n) == UNION { [1..k -> S] : k \in 0..n }

HoursOf(shape) ==
    [d \in 1..Len(shape) |-> [j \in 1..shape[d] |-> (6 * j) % 24]]

RatingsOf(shape) ==
    [d \in 1..Len(shape) |-> [j \in 1..shape[d] |-> (3 * d + j) % 11]]

SwellsOf(shape) ==
    [d \in 1..Len(shape) |-> [j \in 1..shape[d] |->
        << [ PeriodInSeconds              |-> 10 + j,
             DirectionToInDegrees         |-> 90 * d,
             DirectionFromInCompassPoints |-> "N",
             WaveHeightInMeters           |-> j ] >> ]]

WaveEnergiesOf(shape) ==
    [d \in 1..Len(shape) |-> [j \in 1..shape[d] |-> 100 * d + j]]

WindsOf(shape) ==
    [d \in 1..Len(shape) |-> [j \in 1..shape[d] |->
        [speed |-> 5 * j, degrees |-> 45 * d, letters |-> "NE"]]]

WindStatesOf(shape) ==
    [d \in 1..Len(shape) |-> [j \in 1..shape[d] |->
        IF j % 2 = 1 THEN "off" ELSE "cross-on"]]

Years == {2023, 2024}

\* Day values around the ends of the months, with the extremes parseDay accepts.
DayValues == {0, 1, 2, 28, 29, 30, 31}

Rows == {"hours", "ratings", "swells", "waveEnergies", "winds", "windStates"}

\* The shapes one step away from a shape: a block more or less, or one block
\* one value longer or shorter.
Variants(base) ==
    {base, Append(base, 1)}
    \cup (IF base = << >> THEN {} ELSE {SubSeq(base, 1, Len(base) - 1)})
    \cup {[base EXCEPT ![d] = @ + 1] : d \in 1..Len(base)}
    \cup {[base EXCEPT ![d] = @ - 1] : d \in 1..Len(base)}

InitLocals ==
    /\ doc = Nil
    /\ tz = << >>
    /\ NoCall
    /\ panicked = FALSE
    /\ pc = "newForecasts"
    /\ i = 0
    /\ year = 0
    /\ month = 0
    /\ previous = Nil
    /\ forecasts = << >>
    /\ result = Nil
    /\ err = NoError
    /\ wanted = << >>
    /\ allFound = << >>
    /\ oneFound = Nil
    /\ visited = << >>

\* The calendar cases: any issuance month, any sequence of day values, one
\* value per block in every row.
InitCalendar ==
    /\ issuedAt \in {Date(y, m, 15, 6, "UTC") : y \in Years, m \in January..December}
    /\ days \in SeqsUpTo(DayValues, MaxDays)
    /\ \E extra \in {0, 1} :
          LET shape == [d \in 1..(Len(days) + extra) |-> 1]
          IN  /\ hours = HoursOf(shape)
              /\ ratings = RatingsOf(shape)
              /\ swells = SwellsOf(shape)
              /\ waveEnergies = WaveEnergiesOf(shape)
              /\ winds = WindsOf(shape)
              /\ windStates = WindStatesOf(shape)
    /\ InitLocals

\* The assembly cases: rows whose shapes agree, or differ in up to two rows.
InitAssembly ==
    /\ issuedAt = Date(2024, 4, 15, 6, "UTC")
    /\ \E base \in SeqsUpTo(1..MaxHours, MaxDays) :
          /\ days = [d \in 1..Len(base) |-> 27 + d]
          /\ \E r1, r2 \in Rows : \E v1, v2 \in Variants(base) :
                LET ShapeOf(r) == IF r = r1 THEN v1 ELSE IF r = r2 THEN v2 ELSE base
                IN  /\ hours = HoursOf(ShapeOf("hours"))
                    /\ ratings = RatingsOf(ShapeOf("ratings"))
                    /\ swells = SwellsOf(ShapeOf("swells"))
                    /\ waveEnergies = WaveEnergiesOf(ShapeOf("waveEnergies"))
                    /\ winds = WindsOf(ShapeOf("winds"))
                    /\ windStates = WindStatesOf(ShapeOf("windStates"))
    /\ InitLocals

InitNewForecasts == InitCalendar \/ InitAssembly

SpecNewForecasts == InitNewForecasts /\ [][NextNewForecasts]_vars

-----------------------------------------------------------------------------
(* The documents the scrapers are called with: trees of the layout the     *)
(* scrapers look for, built from the texts of their cells.                 *)

Element(tag, attrs, children) ==
    [type |-> "element", data |-> << tag >>, attr |-> attrs, children |-> children]

Text(data) == [type |-> "text", data |-> data, attr |-> << >>, children |-> << >>]

Attr(key, val) == [key |-> key, val |-> val]

CellClass(end) ==
    Attr(AttributeClass,
         IF end THEN classForecastTableCell \o << " " >> \o classIsDayEnd
         ELSE classForecastTableCell)

\* An element of class forecast-table__value holding a text; no text node
\* when the text is empty.
ValueNode(text) ==
    Element("span", << Attr(AttributeClass, classForecastTableValue) >>,
            IF text = << >> THEN << >> ELSE << Text(text) >>)

\* A cell of the hours row: the numeral and the clock period, each in a value
\* element; with one = TRUE the cell holds the numeral only.
HourCell(hourText, periodText, end, one) ==
    Element("td", << CellClass(end) >>,
            IF one THEN << ValueNode(hourText) >>
            ELSE << ValueNode(hourText), ValueNode(periodText) >>)

HoursRow(cells) ==
    Element("tr",
            << Attr(AttributeClass,
                    classForecastTableRow \o << " " >> \o classForecastTableTime),
               Attr(attributeDataRowName, dataRowNameTime) >>,
            cells)

Table(rows) ==
    Element("table", << Attr(AttributeClass, classForecastTableBasic) >>,
            << Element("tbody", << >>, rows) >>)

\* The cells of the row of kind `kind` of a table built by Table.
CellsOf(table, kind) == FindOne(table, RowConditions(kind))[1].children

MaxCellsBefore == 1

HourCharacters == {"0", "1", "2", "3", "4", "5", "6", "7", "8", "9", "-", "+", "x"}
PeriodCharacters == {"A", "a", "P", "p", "M", "m", "X"}

HourTexts == UNION {[1..k -> HourCharacters] : k \in 1..2}
PeriodTexts == UNION {[1..k -> PeriodCharacters] : k \in 1..2} \cup {<<"A", "M", "X">>}

\* Cells that scrape without an error.
GoodHourCells ==
    {HourCell(<<"1", "2">>, <<"A", "M">>, end, FALSE) : end \in BOOLEAN}
    \cup {HourCell(<<"6">>, <<"p", "m">>, end, FALSE) : end \in BOOLEAN}

\* The cell under test: any numeral text, any clock period text, a missing
\* text or a missing value element.
TestHourCells ==
    {HourCell(h, p, end, FALSE) :
        h \in HourTexts, p \in {<<"A", "M">>, <<"p", "m">>}, end \in BOOLEAN}
    \cup {HourCell(h, p, end, FALSE) :
        h \in {<<"1", "2">>, <<"7">>}, p \in PeriodTexts, end \in BOOLEAN}
    \cup {HourCell(h, p, TRUE, one) :
        h \in {<< >>, <<"7">>}, p \in {<< >>, <<"A", "M">>}, one \in BOOLEAN}

InitScrapeHours ==
    /\ \E before \in SeqsUpTo(GoodHourCells, MaxCellsBefore) :
       \E cell \in TestHourCells :
       \E after \in SeqsUpTo({HourCell(<<"6">>, <<"p", "m">>, TRUE, FALSE)}, 1) :
          doc = << Table(<< HoursRow(before \o << cell >> \o after) >>) >>
    /\ tz = << >>
    /\ NoCall
    /\ panicked = FALSE
    /\ pc = "scrapeHours"
    /\ issuedAt = Date(2024, 4, 15, 6, "UTC")
    /\ days = << >>
    /\ hours = << >>
    /\ ratings = << >>
    /\ swells = << >>
    /\ waveEnergies = << >>
    /\ winds = << >>
    /\ windStates = << >>
    /\ i = 0
    /\ year = 0
    /\ month = 0
    /\ previous = Nil
    /\ forecasts = << >>
    /\ result = Nil
    /\ err = NoError
    /\ wanted = << >>
    /\ allFound = << >>
    /\ oneFound = Nil
    /\ visited = << >>

NextScrapeHours == ScrapeHoursCall

SpecScrapeHours == InitScrapeHours /\ [][NextScrapeHours]_vars

-----------------------------------------------------------------------------
(* The calendar the day values stand for: the month moves on by one at     *)
(* every drop of the day value, and the year moves on by one when the      *)
(* month passes December.  The claims below compare the dates newForecasts  *)
(* assigns with it.                                                        *)

NextMonth(m) == IF m = December THEN January ELSE m + 1

RECURSIVE RefYearMonth(_, _, _)
RefYearMonth(ds, issued, k) ==
    IF k = 1
    THEN [year |-> issued.year, month |-> issued.month]
    ELSE LET p == RefYearMonth(ds, issued, k - 1)
         IN  IF ds[k] <= ds[k - 1]
             THEN [year  |-> IF p.month = December THEN p.year + 1 ELSE p.year,
                   month |-> NextMonth(p.month)]
             ELSE p

\* A day sequence the source can present: no two equal neighbours, and every
\* day a day of its month.
Presentable(ds, issued) ==
    \A k \in 1..Len(ds) :
        /\ k > 1 => ds[k] # ds[k - 1]
        /\ LET ym == RefYearMonth(ds, issued, k)
           IN  ds[k] \in 1..DaysIn(ym.year, ym.month)

Drops(ds) == {k \in 2..Len(ds) : ds[k] < ds[k - 1]}

Succeeded == pc = "done" /\ result # Nil

Failed == pc = "done" /\ result = Nil /\ err # NoError

\* Every timestamp of a DailyForecast, its own and those of its hours, is on
\* the date y-m-d.
DatedOn(f, y, m, d) ==
    /\ f.Timestamp = [year |-> y, month |-> m, day |-> d, hour |-> 0,
                     loc |-> issuedAt.loc]
    /\ \A j \in 1..Len(f.Hourly) :
          /\ f.Hourly[j].Timestamp.year = y
          /\ f.Hourly[j].Timestamp.month = m
          /\ f.Hourly[j].Timestamp.day = d

\* C1: with an issuance month M from January to November and a presentable
\* day sequence that drops exactly once, every day-block before the drop is
\* dated in month M of the issuance year, and every day-block from the drop on
\* in month M+1 of the issuance year.
C1_RolloverWithinYear ==
    (/\ pc = "done"
     /\ CountError(days, hours, ratings, swells, waveEnergies, winds, windStates)
           = NoError
     /\ issuedAt.month < December
     /\ Presentable(days, issuedAt)
     /\ Cardinality(Drops(days)) = 1)
    => /\ result # Nil
       /\ Len(result[1].Daily) = Len(days)
       /\ LET k == CHOOSE x \in Drops(days) : TRUE
          IN  \A d \in 1..Len(days) :
                DatedOn(result[1].Daily[d], issuedAt.year,
                        IF d < k THEN issuedAt.month ELSE issuedAt.month + 1,
                        days[d])

C1_Witness ==
    /\ Succeeded
    /\ issuedAt.month = 4
    /\ days = << 29, 30, 1 >>

\* C2: when the running month is December and the next day value is lower
\* than the previous one, the running month becomes January, and the day-block
\* is dated in January.
C2_DecemberWrapsToJanuary ==
    [][(/\ pc = "loop"
        /\ i > 1
        /\ i <= Len(days)
        /\ month = December
        /\ Presentable(days, issuedAt)
        /\ days[i] < days[i - 1])
       => /\ month' = January
          /\ pc' = "loop" => forecasts'[i].Timestamp.month = January]_vars

\* C3: when the running month wraps past December, the day-block at the wrap
\* and all later ones are dated in the issuance year plus one, the earlier
\* ones in the issuance year, in the DailyForecast timestamp and in every
\* HourlyForecast timestamp.
C3_YearIncrementsOnWrap ==
    (Succeeded /\ Presentable(days, issuedAt))
    => \A d \in 1..Len(days) :
         LET f == result[1].Daily[d]
             y == RefYearMonth(days, issuedAt, d).year
         IN  /\ f.Timestamp.year = y
             /\ \A j \in 1..Len(f.Hourly) : f.Hourly[j].Timestamp.year = y

\* C4: for every block after the first, if its day value is less than or
\* equal to the day value of the block before it, the running month is
\* advanced by one before the block is dated.
C4_EqualDaysAdvanceMonth ==
    [][(/\ pc = "loop"
        /\ i > 1
        /\ i <= Len(days)
        /\ days[i] <= days[i - 1])
       => month' = NextMonth(month)]_vars

\* The rows whose block of day d has another length than the hour block.
Offending(d) ==
    {r \in Rows \ {"hours"} :
        Len(hours[d]) # Len((CASE r = "ratings" -> ratings
                               [] r = "swells" -> swells
                               [] r = "waveEnergies" -> waveEnergies
                               [] r = "winds" -> winds
                               [] r = "windStates" -> windStates)[d])}

PairMessage(r) ==
    CASE r = "ratings" -> "hours and ratings must have equal number of elements"
      [] r = "swells" -> "hours and swells must have equal number of elements"
      [] r = "waveEnergies" ->
             "hours and wave energies must have equal number of elements"
      [] r = "winds" -> "hours and winds must have equal number of elements"
      [] r = "windStates" ->
             "hours and wind states must have equal number of elements"

CountsAgree ==
    /\ Len(days) = Len(hours)
    /\ Len(days) = Len(ratings)
    /\ Len(days) = Len(swells)
    /\ Len(days) = Len(waveEnergies)
    /\ Len(days) = Len(winds)
    /\ Len(days) = Len(windStates)

\* C6: when some day has a block whose length differs from that of its hour
\* block, newForecasts returns no Forecasts and an error naming an offending
\* pair of that day; and every DailyForecast built has exactly one record per
\* value of each of its six blocks.
C6_LengthMismatchIsFatal ==
    /\ (pc = "done" /\ CountsAgree /\ \E d \in 1..Len(days) : Offending(d) # {})
       => /\ result = Nil
          /\ Len(err) = 2
          /\ err[1] = "could not create forecast"
          /\ LET d == Len(forecasts) + 1
             IN  /\ d <= Len(days)
                 /\ \E r \in Offending(d) : err[2] = PairMessage(r)
    /\ \A d \in 1..Len(forecasts) :
          /\ Len(forecasts[d].Hourly) = Len(hours[d])
          /\ Len(forecasts[d].Hourly) = Len(ratings[d])
          /\ Len(forecasts[d].Hourly) = Len(swells[d])
          /\ Len(forecasts[d].Hourly) = Len(waveEnergies[d])
          /\ Len(forecasts[d].Hourly) = Len(winds[d])
          /\ Len(forecasts[d].Hourly) = Len(windStates[d])

C6_Witness ==
    /\ Failed
    /\ CountsAgree
    /\ Len(forecasts) = 1
    /\ err = << "could not create forecast",
                "hours and winds must have equal number of elements" >>

\* C7: when the number of day values differs from the number of day-blocks
\* of some row, newForecasts returns an error and no Forecasts, without
\* building any DailyForecast; a returned Forecasts has one entry per day value
\* and all seven sequences have the same number of entries.
C7_CountMismatchIsFatal ==
    /\ (pc = "done" /\ ~CountsAgree)
       => /\ result = Nil
          /\ err # NoError
          /\ forecasts = << >>
    /\ result # Nil
       => /\ CountsAgree
          /\ err = NoError
          /\ Len(result[1].Daily) = Len(days)

C7_Witness ==
    /\ Failed
    /\ Len(days) = 2
    /\ Len(hours) = 2
    /\ Len(windStates) = 3
    /\ err = << "days and wind states must have equal number of elements" >>

-----------------------------------------------------------------------------
(* The hours row as it is written in the document: the texts of a cell,    *)
(* the numbers the texts denote, and the clock periods they name.  These    *)
(* read the document directly; none of them goes through the scrapers.       *)

HourCells == CellsOf(doc[1], "hours")

\* A cell of two value elements, each with a text.
WellShaped(c) ==
    /\ Len(c.children) = 2
    /\ c.children[1].children # << >>
    /\ c.children[2].children # << >>

HourText(c) == c.children[1].children[1].data
PeriodText(c) == c.children[2].children[1].data

\* The decimal numeral of v, 0 <= v <= 99.
Numeral(v) ==
    IF v < 10 THEN << Digits[v + 1] >>
    ELSE << Digits[(v \div 10) + 1], Digits[(v % 10) + 1] >>

\* The texts of at most two characters that denote the integer v.
TextsOf(v) ==
    (IF v \in 0..99 THEN {Numeral(v)} ELSE {})
    \cup (IF v \in 0..9 THEN {<<"0">> \o Numeral(v), <<"+">> \o Numeral(v)} ELSE {})
    \cup (IF v \in -9..0 THEN {<<"-">> \o Numeral(0 - v)} ELSE {})

IntegerTexts == UNION {TextsOf(v) : v \in -9..99}
IsIntegerText(t) == t \in IntegerTexts
IntegerOf(t) == CHOOSE v \in -9..99 : t \in TextsOf(v)

TwelveClockHourTexts == UNION {TextsOf(h) : h \in 1..12}
IsHourText(t) == t \in TwelveClockHourTexts

AMTexts == {<< a, m >> : a \in {"A", "a"}, m \in {"M", "m"}}
PMTexts == {<< q, m >> : q \in {"P", "p"}, m \in {"M", "m"}}

GoodCell(c) ==
    WellShaped(c) /\ IsHourText(HourText(c)) /\ PeriodText(c) \in AMTexts \cup PMTexts

\* The hour of the day a numeral and a clock period stand for.
HourOfDay(h, isPM) ==
    IF h = 12 THEN (IF isPM THEN 12 ELSE 0)
    ELSE IF isPM THEN h + 12 ELSE h

RECURSIVE Flatten(_)
Flatten(blocks) == IF blocks = << >> THEN << >> ELSE blocks[1] \o Flatten(Tail(blocks))

ClockPeriods == {beforeMidday, afterMidday}

\* C9: for every numeral h in 1..12, toTwentyFourClockHour gives 0 for
\* (12, AM), 12 for (12, PM), h for (h, AM) and h + 12 for (h, PM) with
\* h < 12; the result is in 0..23; two different pairs (h, period) never give
\* the same value; and every hour scrapeHours returns is the hour of the day
\* the numeral and the clock period of its cell stand for.
ConversionAsStated ==
    /\ \A h \in 1..12 :
          /\ toTwentyFourClockHour(h, beforeMidday) = (IF h = 12 THEN 0 ELSE h)
          /\ toTwentyFourClockHour(h, afterMidday) = (IF h = 12 THEN 12 ELSE h + 12)
          /\ \A q \in ClockPeriods : toTwentyFourClockHour(h, q) \in 0..23
    /\ \A h1, h2 \in 1..12 : \A q1, q2 \in ClockPeriods :
          toTwentyFourClockHour(h1, q1) = toTwentyFourClockHour(h2, q2)
             => (h1 = h2 /\ q1 = q2)

C9_TwelveToTwentyFour ==
    /\ ConversionAsStated
    /\ (pc = "done" /\ err = NoError /\ ~panicked)
       => \A k \in 1..Len(Flatten(hours)) :
             \E h \in 1..12 :
                /\ HourText(HourCells[k]) \in TextsOf(h)
                /\ Flatten(hours)[k]
                      = HourOfDay(h, PeriodText(HourCells[k]) \in PMTexts)

C9_Witness ==
    /\ pc = "done"
    /\ err = NoError
    /\ hours = << << 0, 12 >> >>
    /\ HourText(HourCells[1]) = <<"1", "2">>
    /\ PeriodText(HourCells[1]) = <<"A", "M">>
    /\ HourText(HourCells[2]) = <<"1", "2">>
    /\ PeriodText(HourCells[2]) = <<"p", "m">>

\* The first cell of the hours row that is not a good cell, 0 when all are.
FirstBadCell ==
    LET bad == {k \in 1..Len(HourCells) : ~GoodCell(HourCells[k])}
    IN  IF bad = {} THEN 0 ELSE CHOOSE k \in bad : \A l \in bad : k <= l

\* C10: parseTwelveClockHour returns an error for every text that is not an
\* integer and for every integer outside 1..12, parseClockPeriod returns an
\* error for every text that is not AM or PM in either case, and when the
\* first cell of the hours row that is not good has such a numeral or such a
\* clock period, scrapeHours returns that error, wrapped, and no day-blocks.
ParsersReject ==
    /\ \A t \in HourTexts :
          /\ ~IsIntegerText(t) => parseTwelveClockHour(t).err = << "not integer" >>
          /\ (IsIntegerText(t) /\ IntegerOf(t) \notin 1..12)
                => parseTwelveClockHour(t).err = << "not 12 clock hour" >>
    /\ \A t \in PeriodTexts :
          t \notin AMTexts \cup PMTexts
             => parseClockPeriod(t).err = << "invalid clock period" >>

C10_InvalidHourCellsAreFatal ==
    /\ ParsersReject
    /\ (pc = "done" /\ FirstBadCell # 0 /\ WellShaped(HourCells[FirstBadCell]))
       => LET c == HourCells[FirstBadCell]
          IN  /\ hours = << >>
              /\ ~panicked
              /\ err = << "could not scrape hour" >>
                       \o (IF ~IsHourText(HourText(c))
                           THEN << "could not parse hour" >>
                                \o parseTwelveClockHour(HourText(c)).err
                           ELSE << "could not parse clock period" >>
                                \o parseClockPeriod(PeriodText(c)).err)
              /\ Len(err) = 3

C10_Witness ==
    /\ pc = "done"
    /\ hours = << >>
    /\ err = << "could not scrape hour", "could not parse hour", "not 12 clock hour" >>
    /\ FirstBadCell = 2
    /\ HourText(HourCells[2]) = <<"1", "3">>
    /\ ClassContains(HourCells[1], << classIsDayEnd >>)

C10_WitnessZero ==
    /\ pc = "done"
    /\ hours = << >>
    /\ err = << "could not scrape hour", "could not parse hour", "not 12 clock hour" >>
    /\ HourText(HourCells[FirstBadCell]) = <<"0">>

C10_WitnessPeriod ==
    /\ pc = "done"
    /\ hours = << >>
    /\ err = << "could not scrape hour", "could not parse clock period",
                "invalid clock period" >>
    /\ PeriodText(HourCells[FirstBadCell]) = <<"A", "X">>

-----------------------------------------------------------------------------
(* Whole documents.  A document is built from the texts of its day cells,  *)
(* the day-end marks of its hourly cells and one defect; without a defect   *)
(* it is a page as the site renders it.  The value of the k-th cell of a    *)
(* row is made from k, so that a record can be traced back to its cell.     *)

RECURSIVE Join(_, _)
\* strings.Join, the inverse of Split.
Join(parts, sep) ==
    IF parts = << >> THEN << >>
    ELSE IF Len(parts) = 1 THEN parts[1]
    ELSE parts[1] \o << sep >> \o Join(Tail(parts), sep)

IssueParts ==
    << <<"issued">>, <<"local">>, <<"time">>, <<"today">>, <<"at">>, <<"6">>,
       <<"p", "m">>, <<"on">>, <<"1", "5">>, <<"Apr">>, <<"2", "0", "2", "4">>,
       <<"UTC">> >>

IssueNode(children) ==
    Element("div", << Attr(AttributeClass, classBreakHeaderIssued) >>, children)

\* The abbreviations the lookup knows, with their candidates.
Lookup ==
    [abbr \in {<<"UTC">>, <<"MYT">>, <<"AEST">>, <<"NUL">>, <<"OLD">>} |->
        CASE abbr = <<"UTC">> -> << "UTC" >>
          [] abbr = <<"MYT">> -> << "Asia/Kuala_Lumpur", "Asia/Singapore" >>
          [] abbr = <<"AEST">> -> << "Australia/Sydney", "UTC" >>
          [] abbr = <<"NUL">> -> << >>
          [] abbr = <<"OLD">> -> << "Nowhere/Gone", "UTC" >>]

IssueDefects ==
    [hourOfIssue |-> [at |-> 6, part |-> <<"1", "3">>],
     periodOfIssue |-> [at |-> 7, part |-> <<"n", "o", "o", "n">>],
     dayOfIssue |-> [at |-> 9, part |-> <<"3", "2">>],
     monthOfIssue |-> [at |-> 10, part |-> <<"April">>],
     yearOfIssue |-> [at |-> 11, part |-> <<"2", "0", "x">>],
     unknownZone |-> [at |-> 12, part |-> <<"XYZ">>],
     emptyZone |-> [at |-> 12, part |-> <<"NUL">>],
     unloadableZone |-> [at |-> 12, part |-> <<"OLD">>],
     otherZone |-> [at |-> 12, part |-> <<"MYT">>],
     laterZone |-> [at |-> 12, part |-> <<"AEST">>]]

IssueOf(defect) ==
    IF defect.type = "noIssueNode" THEN Element("div", << >>, << >>)
    ELSE IF defect.type = "noIssueText" THEN IssueNode(<< >>)
    ELSE IF defect.type = "shortIssueText"
    THEN IssueNode(<< Text(Join(Tail(IssueParts), " ")) >>)
    ELSE IF defect.type \in DOMAIN IssueDefects
    THEN IssueNode(<< Text(Join([IssueParts EXCEPT
                                    ![IssueDefects[defect.type].at] =
                                        IssueDefects[defect.type].part], " ")) >>)
    ELSE IssueNode(<< Text(Join(IssueParts, " ")) >>)

DayCell(dayText) ==
    Element("td", << CellClass(FALSE) >>, << ValueNode(<<"Mon">>), ValueNode(dayText) >>)

RatingCell(k, end) ==
    Element("td", << CellClass(end) >>,
            << Element("img", << Attr(AttributeAlternateImageText, Numeral(k)) >>, << >>) >>)

SwellObject(k) ==
    [tok |-> "object", quote |-> "double", period |-> 10 + k, angle |-> 90 * k,
     letters |-> "SW", height |-> k]

SwellsCell(k, end) ==
    Element("td",
            << CellClass(end),
               Attr(attributeDataSwellState,
                    << [tok |-> "["], SwellObject(k), [tok |-> ","], [tok |-> "null"],
                       [tok |-> "]"] >>) >>,
            << >>)

WaveEnergyCell(k, end) ==
    Element("td", << CellClass(end) >>,
            << Element("strong", << >>, << Text(Numeral(10 + k) \o <<".", "5">>) >>) >>)

WindCell(k, degreesText, end) ==
    Element("td", << CellClass(end) >>,
            << Element("div",
                       << Attr(AttributeClass, classWindIcon),
                          Attr(attributeDataSpeed, Numeral(5 * k)) >>,
                       << Element("g",
                                  << Attr(AttributeClass, classWindIconArrow),
                                     Attr(AttributeTransform,
                                          transformRotatePrefix \o degreesText
                                             \o transformRotateSuffix) >>,
                                  << >>),
                          Element("text",
                                  << Attr(AttributeClass, classWindLetters) >>,
                                  << Text(<<"NE">>) >>) >>) >>)

WindStateCell(k, end) ==
    Element("td", << CellClass(end) >>,
            << Element("b", << >>, << Text(<<"cross">>) >>), Text(<<"-off">>) >>)

\* The k-th cell of a row as the site renders it.
CellAsRendered(kind, k, dayTexts, end) ==
    CASE kind = "days" -> DayCell(dayTexts[k])
      [] kind = "hours" -> HourCell(Numeral(k), <<"A", "M">>, end, FALSE)
      [] kind = "ratings" -> RatingCell(k, end)
      [] kind = "swells" -> SwellsCell(k, end)
      [] kind = "waveEnergies" -> WaveEnergyCell(k, end)
      [] kind = "winds" -> WindCell(k, <<"4", "5">>, end)
      [] kind = "windStates" -> WindStateCell(k, end)

\* A cell with nothing in it.
EmptyCell(end) == Element("td", << CellClass(end) >>, << >>)

\* A cell whose value is outside the domain of its row.
BadValueCell(kind, k, end) ==
    CASE kind = "days" -> DayCell(<<"3", "2">>)
      [] kind = "hours" -> HourCell(<<"1", "3">>, <<"A", "M">>, end, FALSE)
      [] kind = "ratings" ->
            Element("td", << CellClass(end) >>,
                    << Element("img", << Attr(AttributeAlternateImageText, <<"1", "1">>) >>,
                               << >>) >>)
      [] kind = "swells" ->
            Element("td",
                    << CellClass(end),
                       Attr(attributeDataSwellState,
                            << [tok |-> "["], [SwellObject(k) EXCEPT !.quote = "single"],
                               [tok |-> "]"] >>) >>,
                    << >>)
      [] kind = "waveEnergies" ->
            Element("td", << CellClass(end) >>,
                    << Element("strong", << >>, << Text(<<"-", "1">>) >>) >>)
      [] kind = "winds" -> WindCell(k, <<"3", "6", "1">>, end)
      [] kind = "windStates" ->
            Element("td", << CellClass(end) >>, << Element("b", << >>, << >>) >>)

RowClass(kind) ==
    CASE kind = "days" -> classForecastTableRow \o << " " >> \o classForecastTableDays
      [] kind = "hours" -> classForecastTableRow \o << " " >> \o classForecastTableTime
      [] kind = "ratings" -> classForecastTableRow \o << " " >> \o classForecastTableRating
      [] OTHER -> classForecastTableRow

RowName(kind) ==
    CASE kind = "days" -> dataRowNameDays
      [] kind = "hours" -> dataRowNameTime
      [] kind = "ratings" -> dataRowNameRating
      [] kind = "swells" -> dataRowNameWaveHeight
      [] kind = "waveEnergies" -> dataRowNameEnergy
      [] kind = "winds" -> dataRowNameWind
      [] kind = "windStates" -> dataRowNameWindState

RowOf(kind, cells) ==
    Element("tr",
            << Attr(AttributeClass, RowClass(kind)),
               Attr(attributeDataRowName, RowName(kind)) >>,
            cells)

Hits(defect, type, kind, k) ==
    defect.type = type /\ defect.kind = kind /\ defect.at = k

CellOf(kind, k, dayTexts, ends, defect) ==
    LET end == IF kind = "days" THEN FALSE
               ELSE IF Hits(defect, "flippedMark", kind, k) THEN ~ends[k]
               ELSE ends[k]
    IN  IF Hits(defect, "emptyCell", kind, k) THEN EmptyCell(end)
        ELSE IF Hits(defect, "badValue", kind, k) THEN BadValueCell(kind, k, end)
        ELSE CellAsRendered(kind, k, dayTexts, end)

RowsOf(dayTexts, ends, defect) ==
    LET n(kind) == IF kind = "days" THEN Len(dayTexts) ELSE Len(ends)
        row(kind) == RowOf(kind, [k \in 1..n(kind) |->
                                     CellOf(kind, k, dayTexts, ends, defect)])
        kept == {j \in 1..Len(RowKinds) :
                    ~(defect.type = "noRow" /\ defect.kind = RowKinds[j])}
        \* the kept rows, in the order of RowKinds
        nth(j) == CHOOSE x \in kept : Cardinality({y \in kept : y < x}) = j - 1
    IN  [j \in 1..Cardinality(kept) |-> row(RowKinds[nth(j)])]

Document(dayTexts, ends, defect) ==
    Element("html", << >>,
            << IssueOf(defect),
               IF defect.type = "noTable"
               THEN Element("table", << >>, << >>)
               ELSE Table(RowsOf(dayTexts, ends, defect)) >>)

MaxTableDays == 2
MaxTableCells == 3

DayTextsOf(d) == [k \in 1..d |-> Numeral(14 + k)]

EndMarks == UNION {[1..n -> BOOLEAN] : n \in 1..MaxTableCells}

NoDefect == [type |-> "none"]

Defects(d, n) ==
    {NoDefect}
    \cup {[type |-> t] : t \in {"noIssueNode", "noIssueText", "shortIssueText", "noTable"}
                               \cup DOMAIN IssueDefects}
    \cup {[type |-> "noRow", kind |-> RowKinds[j]] : j \in 1..Len(RowKinds)}
    \cup {[type |-> t, kind |-> "days", at |-> k] :
             t \in {"emptyCell", "badValue"}, k \in 1..d}
    \cup {[type |-> t, kind |-> kind, at |-> k] :
             t \in {"emptyCell", "badValue", "flippedMark"}, kind \in Rows, k \in 1..n}

InitScrapeForecasts ==
    /\ \E d \in 1..MaxTableDays :
       \E ends \in EndMarks :
       \E defect \in Defects(d, Len(ends)) :
          doc = << Document(DayTextsOf(d), ends, defect) >>
    /\ tz = Lookup
    /\ NoCall
    /\ panicked = FALSE
    /\ pc = "scrapeForecasts"
    /\ issuedAt = Date(1, 1, 1, 0, "UTC")
    /\ days = << >>
    /\ hours = << >>
    /\ ratings = << >>
    /\ swells = << >>
    /\ waveEnergies = << >>
    /\ winds = << >>
    /\ windStates = << >>
    /\ i = 0
    /\ year = 0
    /\ month = 0
    /\ previous = Nil
    /\ forecasts = << >>
    /\ result = Nil
    /\ err = NoError
    /\ wanted = << >>
    /\ allFound = << >>
    /\ oneFound = Nil
    /\ visited = << >>

SpecScrapeForecasts == InitScrapeForecasts /\ [][NextScrapeForecasts]_vars

\* The page as the site renders it.
Rendered(d, ends) == << Document(DayTextsOf(d), ends, NoDefect) >>

Marked(ends) == {k \in 1..Len(ends) : ends[k]}

\* The record of the k-th hourly cell of a rendered page.
FromCell(h, k) ==
    /\ h.Timestamp.hour = k
    /\ h.Rating = k
    /\ h.WaveEnergyInKiloJoules = 10 * (10 + k) + 5
    /\ h.Wind.SpeedInKilometersPerHour = 10 * (5 * k)
    /\ Len(h.Swells) = 1
    /\ h.Swells[1].WaveHeightInMeters = k

\* Two DailyForecast entries: the cells 1..b and the cells b+1..n.
Partitioned(b, n) ==
    /\ result # Nil
    /\ err = NoError
    /\ Len(result[1].Daily) = 2
    /\ Len(result[1].Daily[1].Hourly) = b
    /\ \A j \in 1..b : FromCell(result[1].Daily[1].Hourly[j], j)
    /\ Len(result[1].Daily[2].Hourly) = n - b
    /\ \A j \in 1..(n - b) : FromCell(result[1].Daily[2].Hourly[j], b + j)

\* C5 as stated: a rendered page of two day cells whose hourly rows carry
\* exactly one day-end mark, at the last cell of day 1 and before the last
\* cell of the row, makes scrapeForecasts succeed with exactly two
\* DailyForecast entries, the first of the cells up to the marked one and the
\* second of the remaining cells.
C5_TwoDayTable ==
    \A ends \in EndMarks : \A b \in 1..(Len(ends) - 1) :
        (pc = "done" /\ doc = Rendered(2, ends) /\ Marked(ends) = {b})
        => Partitioned(b, Len(ends))

\* C5, amended: the page yields the two entries, partitioned at the first
\* mark, when the last cell of day 2 carries a day-end mark as well; with the
\* mark of day 1 alone every hourly row scrapes to one day-block and
\* scrapeForecasts returns no Forecasts and the count error of newForecasts.
C5_TwoDayTableClosed ==
    \A ends \in EndMarks : \A b \in 1..(Len(ends) - 1) :
        (pc = "done" /\ doc = Rendered(2, ends))
        => /\ Marked(ends) = {b, Len(ends)} => Partitioned(b, Len(ends))
           /\ Marked(ends) = {b}
                 => /\ result = Nil
                    /\ ~panicked
                    /\ Len(hours) = 1
                    /\ Len(windStates) = 1
                    /\ err = << "days and hours must have equal number of elements" >>

C5_Witness ==
    /\ pc = "done"
    /\ doc = Rendered(2, << FALSE, TRUE, TRUE >>)
    /\ Len(result[1].Daily) = 2
    /\ Len(result[1].Daily[1].Hourly) = 2
    /\ Len(result[1].Daily[2].Hourly) = 1
    /\ result[1].Daily[2].Hourly[1].Timestamp.hour = 3

C5_WitnessOpen ==
    /\ pc = "done"
    /\ doc = Rendered(2, << FALSE, TRUE, FALSE >>)
    /\ result = Nil
    /\ days = << 15, 16 >>
    /\ hours = << << 1, 2 >> >>

\* C8: whenever scrapeForecasts has ended, it has returned either a Forecasts
\* and no error or no Forecasts and an error, never both and never neither.
C8_AllOrNothing ==
    pc = "done"
    => \/ result # Nil /\ err = NoError
       \/ result = Nil /\ err # NoError

\* scrapeForecasts has ended without returning.
C8_Neither == pc = "done" /\ panicked /\ result = Nil /\ err = NoError

\* Where scrapeForecasts returns, it returns one of the two outcomes.
C8_ReturnsAreAllOrNothing == (pc = "done" /\ ~panicked) => C8_AllOrNothing

-----------------------------------------------------------------------------
(* The row scrapers of the ratings, swells, winds and wind states, each    *)
(* called on its own on a table of one row; the last cell of the row is     *)
(* the cell under test.                                                     *)

InitRowCall ==
    /\ tz = << >>
    /\ NoCall
    /\ panicked = FALSE
    /\ issuedAt = Date(2024, 4, 15, 6, "UTC")
    /\ days = << >>
    /\ hours = << >>
    /\ ratings = << >>
    /\ swells = << >>
    /\ waveEnergies = << >>
    /\ winds = << >>
    /\ windStates = << >>
    /\ i = 0
    /\ year = 0
    /\ month = 0
    /\ previous = Nil
    /\ forecasts = << >>
    /\ result = Nil
    /\ err = NoError
    /\ wanted = << >>
    /\ allFound = << >>
    /\ oneFound = Nil
    /\ visited = << >>

\* The row a table of one row holds, its cells, and the cell under test.
TestRow == doc[1].children[1].children[1]
TestCells == TestRow.children
TestCell == TestCells[Len(TestCells)]
TestRowIs(kind) == Attribute(TestRow, attributeDataRowName).val = RowName(kind)

ImageCell(attrs, end) ==
    Element("td", << CellClass(end) >>, << Element("img", attrs, << >>) >>)

RatingTexts == HourTexts

\* The rating cells under test: any text of one or two characters in the alt
\* attribute, an image without the attribute, and a cell without a child.
TestRatingCells ==
    {ImageCell(<< Attr(AttributeAlternateImageText, t) >>, end) :
        t \in RatingTexts, end \in BOOLEAN}
    \cup {ImageCell(<< Attr(AttributeClass, <<"star">>) >>, TRUE), EmptyCell(TRUE)}

InitScrapeRatings ==
    /\ pc = "scrapeRatings"
    /\ \E before \in SeqsUpTo({RatingCell(3, FALSE), RatingCell(7, TRUE)}, MaxCellsBefore) :
       \E cell \in TestRatingCells :
          doc = << Table(<< RowOf("ratings", before \o << cell >>) >>) >>

ScrapeRatingsCall ==
    /\ pc = "scrapeRatings"
    /\ \E r \in {scrapeRatings(doc[1])} :
           /\ ratings' = r.val
           /\ err' = r.err
           /\ panicked' = r.panic
    /\ pc' = "done"
    /\ UNCHANGED << input, queries, issuedAt, days, hours, swells, waveEnergies, winds,
                    windStates, locals, result >>

\* The longest array of swells in a cell under test.
MaxSwells == 3

SwellsCellOf(payload, end) ==
    Element("td", << CellClass(end), Attr(attributeDataSwellState, payload) >>, << >>)

RECURSIVE Separated(_)
\* The entries with a comma between each two.
Separated(entries) ==
    IF Len(entries) <= 1 THEN entries
    ELSE << entries[1], [tok |-> ","] >> \o Separated(Tail(entries))

ArrayOf(entries) == << [tok |-> "["] >> \o Separated(entries) \o << [tok |-> "]"] >>

\* The arrays of up to MaxSwells entries, each null or one of two objects.
DecodablePayloads ==
    {ArrayOf(entries) :
        entries \in SeqsUpTo({[tok |-> "null"], SwellObject(1), SwellObject(2)}, MaxSwells)}

\* The payload written with single quotes for double quotes.
SingleQuoted(b) ==
    [k \in DOMAIN b |-> IF b[k].tok = "object" THEN [b[k] EXCEPT !.quote = "single"]
                        ELSE b[k]]

SingleQuotedPayloads ==
    {SingleQuoted(b) : b \in {p \in DecodablePayloads : \E k \in DOMAIN p : p[k].tok = "object"}}

\* Texts that are no JSON array.
UndecodablePayloads ==
    { << [tok |-> "["] >>,
      << [tok |-> "["], SwellObject(1) >>,
      << [tok |-> "["], [tok |-> ","], [tok |-> "]"] >>,
      << [tok |-> "["], SwellObject(1), [tok |-> ","], [tok |-> "]"] >>,
      << SwellObject(1) >> }

TestSwellsCells ==
    {SwellsCellOf(b, end) :
        b \in DecodablePayloads \cup SingleQuotedPayloads \cup UndecodablePayloads,
        end \in BOOLEAN}
    \cup {EmptyCell(TRUE)}

InitScrapeSwells ==
    /\ pc = "scrapeSwells"
    /\ \E before \in SeqsUpTo({SwellsCell(1, FALSE)}, MaxCellsBefore) :
       \E cell \in TestSwellsCells :
          doc = << Table(<< RowOf("swells", before \o << cell >>) >>) >>

ScrapeSwellsCall ==
    /\ pc = "scrapeSwells"
    /\ \E r \in {scrapeSwells(doc[1])} :
           /\ swells' = r.val
           /\ err' = r.err
           /\ panicked' = r.panic
    /\ pc' = "done"
    /\ UNCHANGED << input, queries, issuedAt, days, hours, ratings, waveEnergies, winds,
                    windStates, locals, result >>

RECURSIVE NumeralOf(_)
\* The decimal numeral of a natural number.
NumeralOf(v) ==
    IF v < 10 THEN << Digits[v + 1] >>
    ELSE Append(NumeralOf(v \div 10), Digits[(v % 10) + 1])

\* The numeral of a number of tenths: a sign when negative, the whole part,
\* and a point and one digit when there is a fraction.
DecimalText(t) ==
    LET a == IF t < 0 THEN 0 - t ELSE t
    IN  (IF t < 0 THEN <<"-">> ELSE << >>)
        \o NumeralOf(a \div 10)
        \o (IF a % 10 = 0 THEN << >> ELSE << ".", Digits[(a % 10) + 1] >>)

\* The directions under test, in tenths of a degree, around both limits.
TestDegrees == {-3600, -10, -1, 0, 1, 450, 1815, 3599, 3600, 3601, 3610, 7200}

\* Texts that are no numeral, the names of the special values among them.
NotNumerals ==
    { << >>, <<"x">>, <<"1", "x">>, <<".">>, <<"1", ".", "2", ".", "3">>, <<"-">>,
      <<"3", "6", "0", "d", "e", "g">>,
      <<"N", "a", "N">>, <<"n", "a", "n">>, <<"N", "A", "N">>, <<"+", "N", "a", "N">>,
      <<"I", "n", "f">>, <<"-", "I", "n", "f">>,
      <<"+", "i", "n", "f", "i", "n", "i", "t", "y">> }

DegreesTexts == {DecimalText(t) : t \in TestDegrees} \cup NotNumerals

\* The closing wind cell whose transform attribute has the value v.
TransformCell(v) ==
    [WindCell(1, << >>, TRUE) EXCEPT !.children[1].children[1].attr[2].val = v]

\* Values of the transform attribute that are not of the shape rotate(...):
\* without the prefix, without the closing parenthesis, without both, with
\* the prefix or the parenthesis twice, and of another function.
OtherTransforms ==
    UNION {{ t \o transformRotateSuffix,
             transformRotatePrefix \o t,
             t,
             transformRotatePrefix \o transformRotatePrefix \o t \o transformRotateSuffix,
             transformRotatePrefix \o t \o transformRotateSuffix \o transformRotateSuffix,
             <<"scale(">> \o t \o transformRotateSuffix } :
              t \in {DecimalText(450), DecimalText(3610), <<"x">>, << >>}}

\* The wind cells under test: every text of DegreesTexts as the angle of the
\* transform attribute, an arrow without the attribute, and an empty cell.
TestWindCells ==
    {WindCell(1, t, end) : t \in DegreesTexts, end \in BOOLEAN}
    \cup {EmptyCell(TRUE)}
    \cup {TransformCell(v) : v \in OtherTransforms}

InitScrapeWinds ==
    /\ pc = "scrapeWinds"
    /\ \E before \in SeqsUpTo({WindCell(2, <<"9", "0">>, FALSE)}, MaxCellsBefore) :
       \E cell \in TestWindCells :
          doc = << Table(<< RowOf("winds", before \o << cell >>) >>) >>

ScrapeWindsCall ==
    /\ pc = "scrapeWinds"
    /\ \E r \in {scrapeWinds(doc[1])} :
           /\ winds' = r.val
           /\ err' = r.err
           /\ panicked' = r.panic
    /\ pc' = "done"
    /\ UNCHANGED << input, queries, issuedAt, days, hours, ratings, swells, waveEnergies,
                    windStates, locals, result >>

\* The texts of the text nodes under test; " " and "\n" are white space.
StateTexts ==
    { <<"cross">>, <<"-off">>, <<" ">>, <<"\n", " ">>, <<" ", "on">>, <<"off", " ">>,
      <<"glass", " ", "y">> }

\* The children of a wind state cell: a text node, or an element around one
\* or around nothing.
StateNodes ==
    {Text(t) : t \in StateTexts}
    \cup {Element("b", << >>, << Text(t) >>) : t \in StateTexts}
    \cup {Element("b", << >>, << >>)}

\* The most children of a wind state cell under test.
MaxStateNodes == 2

TestWindStateCells ==
    {Element("td", << CellClass(end) >>, children) :
        children \in SeqsUpTo(StateNodes, MaxStateNodes), end \in BOOLEAN}

InitScrapeWindStates ==
    /\ pc = "scrapeWindStates"
    /\ \E before \in SeqsUpTo({WindStateCell(1, FALSE)}, MaxCellsBefore) :
       \E cell \in TestWindStateCells :
          doc = << Table(<< RowOf("windStates", before \o << cell >>) >>) >>

ScrapeWindStatesCall ==
    /\ pc = "scrapeWindStates"
    /\ \E r \in {scrapeWindStates(doc[1])} :
           /\ windStates' = r.val
           /\ err' = r.err
           /\ panicked' = r.panic
    /\ pc' = "done"
    /\ UNCHANGED << input, queries, issuedAt, days, hours, ratings, swells, waveEnergies,
                    winds, locals, result >>

InitScrapeRows ==
    /\ InitRowCall
    /\ \/ InitScrapeRatings
       \/ InitScrapeSwells
       \/ InitScrapeWinds
       \/ InitScrapeWindStates

NextScrapeRows ==
    \/ ScrapeRatingsCall
    \/ ScrapeSwellsCall
    \/ ScrapeWindsCall
    \/ ScrapeWindStatesCall

SpecScrapeRows == InitScrapeRows /\ [][NextScrapeRows]_vars

RatingText(c) == c.children[1].attr[1].val

RatingsAccepted == UNION {TextsOf(v) : v \in 0..10}

ParseRatingAsStated ==
    /\ \A v \in 0..10 : \A t \in TextsOf(v) : parseRating(t) = Ok(v)
    /\ \A t \in RatingTexts :
          /\ (IsIntegerText(t) /\ IntegerOf(t) \notin 0..10)
                => /\ parseRating(t).err = << "invalid rating" >>
                   /\ parseRating(t).val = << >>
          /\ ~IsIntegerText(t) => parseRating(t).err = << "not integer" >>
    /\ {<<"0">>, <<"1", "0">>} \subseteq RatingTexts
    /\ {<<"-", "1">>, <<"1", "1">>} \subseteq RatingTexts \ RatingsAccepted

\* C11: parseRating returns v for every text of an integer v in 0..10, 0 and
\* 10 included, and an error for every integer below 0 or above 10 and for
\* every text that is not an integer; and scrapeRatings, on a row whose last
\* cell carries such a text and closes a block, returns the rating as the
\* last of the block, or the error of parseRating and no blocks.
C11_RatingBounds ==
    /\ ParseRatingAsStated
    /\ (/\ pc = "done"
        /\ TestRowIs("ratings")
        /\ TestCell \in {ImageCell(<< Attr(AttributeAlternateImageText, t) >>, TRUE) :
                            t \in RatingTexts})
       => IF RatingText(TestCell) \in RatingsAccepted
          THEN /\ err = NoError
               /\ ratings # << >>
               /\ \E v \in 0..10 :
                     /\ RatingText(TestCell) \in TextsOf(v)
                     /\ ratings[Len(ratings)][Len(ratings[Len(ratings)])] = v
          ELSE /\ ratings = << >>
               /\ err = << "could not parse rating" >> \o parseRating(RatingText(TestCell)).err
               /\ Len(err) = 2

C11_Witness ==
    /\ pc = "done"
    /\ TestRowIs("ratings")
    /\ ratings = << << 10 >> >>
    /\ RatingText(TestCell) = <<"1", "0">>

C11_WitnessRejected ==
    /\ pc = "done"
    /\ TestRowIs("ratings")
    /\ ratings = << >>
    /\ err = << "could not parse rating", "invalid rating" >>
    /\ RatingText(TestCell) = <<"1", "1">>

\* The entries of an array, the places of those that are not null, and the
\* number of such places up to the k-th.
EntriesOf(b) == [k \in 1..((Len(b) - 1) \div 2) |-> b[2 * k]]
NotNull(b) == {k \in DOMAIN EntriesOf(b) : EntriesOf(b)[k].tok # "null"}
Rank(b, k) == Cardinality({j \in NotNull(b) : j <= k})

FieldByField(o, w) ==
    /\ w.PeriodInSeconds = o.period
    /\ w.DirectionToInDegrees = o.angle
    /\ w.DirectionFromInCompassPoints = o.letters
    /\ w.WaveHeightInMeters = o.height

\* r holds the entries of b that are not null, in the order of b.
SkipsNull(b, r) ==
    /\ Len(r) = Cardinality(NotNull(b))
    /\ \A k \in NotNull(b) : FieldByField(EntriesOf(b)[k], r[Rank(b, k)])

TestPayload == Attribute(TestCell, attributeDataSwellState).val

UnmarshalSkipsNull ==
    /\ \A b \in DecodablePayloads :
          /\ unmarshalSwells(b).err = NoError
          /\ ~unmarshalSwells(b).panic
          /\ SkipsNull(b, unmarshalSwells(b).val)
          /\ NotNull(b) = {} => unmarshalSwells(b).val = << >>
    /\ \E b \in DecodablePayloads : NotNull(b) = {} /\ Len(EntriesOf(b)) = MaxSwells
    /\ \E b \in DecodablePayloads : NotNull(b) = {1, 3}

\* C12: for every array of null entries and objects unmarshalSwells returns
\* no error and exactly the entries that are not null, in the order of the
\* array, each with its four fields; an array of null entries alone gives no
\* swells; and the swells scrapeSwells returns for a closing cell with such
\* an array are those.
C12_NullSwellsSkipped ==
    /\ UnmarshalSkipsNull
    /\ (/\ pc = "done"
        /\ TestRowIs("swells")
        /\ TestCell \in {SwellsCellOf(b, TRUE) : b \in DecodablePayloads})
       => /\ err = NoError
          /\ ~panicked
          /\ swells # << >>
          /\ SkipsNull(TestPayload, swells[Len(swells)][Len(swells[Len(swells)])])

C12_Witness ==
    /\ pc = "done"
    /\ TestRowIs("swells")
    /\ err = NoError
    /\ TestCell = SwellsCellOf(ArrayOf(<< SwellObject(2), [tok |-> "null"], SwellObject(1) >>), TRUE)
    /\ Len(swells[Len(swells)][Len(swells[Len(swells)])]) = 2
    /\ swells[Len(swells)][Len(swells[Len(swells)])][2].PeriodInSeconds = 11

C12_WitnessAllNull ==
    /\ pc = "done"
    /\ TestRowIs("swells")
    /\ err = NoError
    /\ TestCell = SwellsCellOf(ArrayOf(<< [tok |-> "null"], [tok |-> "null"] >>), TRUE)
    /\ swells = << << << >> >> >>

\* The payload written with double quotes for single quotes.
DoubleQuoted(b) ==
    [k \in DOMAIN b |-> IF b[k].tok = "object" THEN [b[k] EXCEPT !.quote = "double"]
                        ELSE b[k]]

\* C13: scrapeSwells, on a row whose last cell closes a block and holds a
\* well-formed array written with single quotes, returns no error and for
\* that cell the swells of the same array written with double quotes.
C13_SingleQuotedPayloadsDecode ==
    (/\ pc = "done"
     /\ TestRowIs("swells")
     /\ TestCell \in {SwellsCellOf(b, TRUE) : b \in SingleQuotedPayloads})
    => /\ err = NoError
       /\ swells # << >>
       /\ SkipsNull(DoubleQuoted(TestPayload), swells[Len(swells)][Len(swells[Len(swells)])])

\* What the code does with such a cell.
C13_SingleQuotedPayloadsFail ==
    (/\ pc = "done"
     /\ TestRowIs("swells")
     /\ TestCell \in {SwellsCellOf(b, end) : b \in SingleQuotedPayloads, end \in BOOLEAN})
    => /\ swells = << >>
       /\ err = << "could not scrape hourly swells", "could not unmarshal swells",
                   "could not unmarshal payload" >>

\* The text between "rotate(" and ")" in the cell under test.
DegreesText(c) ==
    LET value == c.children[1].children[1].attr[2].val
    IN  SubSeq(value, 2, Len(value) - 1)

WindErrors(last) ==
    << "could not scrape wind", "could not scrape wind direction degrees",
       "could not parse wind direction degrees", last >>

\* The outcome C14 states for the closing cell under test with the text t:
\* the direction d of the text when 0 <= d <= 360, an error otherwise.
DirectionAsStated(t) ==
    IF \E d \in TestDegrees : 0 <= d /\ d <= 3600 /\ t = DecimalText(d)
    THEN /\ err = NoError
         /\ winds # << >>
         /\ \E d \in TestDegrees :
               /\ t = DecimalText(d)
               /\ winds[Len(winds)][Len(winds[Len(winds)])].degrees = d
    ELSE /\ err # NoError
         /\ winds = << >>

\* C14: scrapeWinds, on a row whose last cell closes a block and carries the
\* text t as its direction, returns the direction d unchanged when t is the
\* numeral of a d with 0 <= d <= 360, and fails when t is the numeral of a
\* number below 0 or above 360 or is no numeral at all.
C14_WindDirectionBounds ==
    (/\ pc = "done"
     /\ TestRowIs("winds")
     /\ TestCell \in {WindCell(1, t, TRUE) : t \in DegreesTexts})
    => DirectionAsStated(DegreesText(TestCell))

\* parseWindDirectionDegrees on every numeral from -2.0 to 362.0 in steps of
\* a tenth, and on the texts that ParseFloat refuses.
DirectionOfNumerals ==
    /\ \A d \in -20..3620 :
          IF 0 <= d /\ d <= 3600
          THEN parseWindDirectionDegrees(DecimalText(d)) = Ok(d)
          ELSE parseWindDirectionDegrees(DecimalText(d)).err
                  = << "invalid wind direction degrees" >>
    /\ \A t \in NotNumerals :
          Special(t) = "finite" => parseWindDirectionDegrees(t).err = << "not float" >>

\* What holds of the code: the outcome is as stated for every text but the
\* name of NaN, for which the text is taken as a direction.
C14_BoundsButNaN ==
    /\ DirectionOfNumerals
    /\ (/\ pc = "done"
        /\ TestRowIs("winds")
        /\ TestCell \in {WindCell(1, t, TRUE) : t \in DegreesTexts})
       => IF Special(DegreesText(TestCell)) = "NaN"
          THEN /\ err = NoError
               /\ Len(winds) > 0
          ELSE DirectionAsStated(DegreesText(TestCell))

C14_NaNAccepted ==
    /\ pc = "done"
    /\ TestRowIs("winds")
    /\ err = NoError
    /\ TestCell = WindCell(1, <<"N", "a", "N">>, TRUE)
    /\ Len(winds) = 1

\* The contents of the text nodes below a cell of two levels, in the order of
\* the document.
TextUnder(c) ==
    Flatten([k \in DOMAIN c.children |->
                IF c.children[k].type = "text" THEN c.children[k].data
                ELSE Flatten([j \in DOMAIN c.children[k].children |->
                                 c.children[k].children[j].data])])

WhiteSpace == {" ", "\n"}

\* The text without the white space at its two ends.
Trimmed(t) ==
    LET inked == {k \in DOMAIN t : t[k] \notin WhiteSpace}
    IN  IF inked = {} THEN << >>
        ELSE SubSeq(t, CHOOSE k \in inked : \A j \in inked : k <= j,
                       CHOOSE k \in inked : \A j \in inked : j <= k)

\* C15: scrapeWindStates, on a row whose last cell closes a block, returns
\* for that cell the contents of the text nodes below it, joined in the order
\* of the document, without the white space at the two ends; and fails when
\* nothing is left of the text, a text of white space alone included.
C15_WindStateTrimmed ==
    (/\ pc = "done"
     /\ TestRowIs("windStates")
     /\ ClassContains(TestCell, << classIsDayEnd >>))
    => IF Trimmed(TextUnder(TestCell)) = << >>
       THEN /\ err # NoError
            /\ windStates = << >>
       ELSE /\ err = NoError
            /\ windStates # << >>
            /\ windStates[Len(windStates)][Len(windStates[Len(windStates)])]
                  = Trimmed(TextUnder(TestCell))

\* What holds of the code: the text is returned as it is joined, and only the
\* empty text is an error.
C15_WindStateAsJoined ==
    (/\ pc = "done"
     /\ TestRowIs("windStates")
     /\ ClassContains(TestCell, << classIsDayEnd >>))
    => IF TextUnder(TestCell) = << >>
       THEN /\ err = << "could not scrape wind state", "invalid wind state" >>
            /\ windStates = << >>
       ELSE /\ err = NoError
            /\ windStates # << >>
            /\ windStates[Len(windStates)][Len(windStates[Len(windStates)])]
                  = TextUnder(TestCell)

C15_WhiteSpaceAccepted ==
    /\ pc = "done"
    /\ TestRowIs("windStates")
    /\ err = NoError
    /\ TestCell = Element("td", << CellClass(TRUE) >>, << Text(<<" ">>) >>)
    /\ windStates = << << <<" ">> >> >>

-----------------------------------------------------------------------------
(* internal/htmlutil on its own: Find, FindOne and ForEach called on every *)
(* tree of up to MaxNodes elements, each element of one of three classes.  *)

\* The most nodes of a tree under test.
MaxNodes == 4

TreeClasses == {<<"x">>, <<"y">>, <<"x", " ", "y">>}

RECURSIVE TreesOfSize(_)
RECURSIVE ForestsOfSize(_)
TreesOfSize(n) ==
    {Element("div", << Attr(AttributeClass, c) >>, f) :
        c \in TreeClasses, f \in ForestsOfSize(n - 1)}

ForestsOfSize(m) ==
    IF m = 0 THEN {<< >>}
    ELSE UNION {{<< t >> \o f : t \in TreesOfSize(k), f \in ForestsOfSize(m - k)} :
                   k \in 1..m}

RECURSIVE Identified(_, _)
\* The tree with the way from the root as the id of every node: html nodes
\* are pointers, and the id tells two equal elements apart.
Identified(t, path) ==
    [t EXCEPT !.attr = t.attr \o << Attr(attributeID, path) >>,
              !.children = [k \in DOMAIN t.children |->
                               Identified(t.children[k], Append(path, Digits[k + 1]))]]

TestTrees == {Identified(t, << >>) : t \in UNION {TreesOfSize(n) : n \in 1..MaxNodes}}

\* The lists of conditions under test.
TestConditions ==
    { << >>,
      << WithClassEqual(<<"x">>) >>,
      << WithClassContaining(<< <<"y">> >>) >>,
      << WithClassContaining(<< <<"x">>, <<"y">> >>) >>,
      << WithClassContaining(<< <<"x">> >>), WithAttributeEqual(attributeID, <<"1">>) >>,
      << WithClassEqual(<<"z">>) >> }

InitHtmlutil ==
    /\ doc \in {<< t >> : t \in TestTrees}
    /\ wanted \in TestConditions
    /\ pc = "Find"
    /\ tz = << >>
    /\ NoCall
    /\ panicked = FALSE
    /\ issuedAt = Date(2024, 4, 15, 6, "UTC")
    /\ days = << >>
    /\ hours = << >>
    /\ ratings = << >>
    /\ swells = << >>
    /\ waveEnergies = << >>
    /\ winds = << >>
    /\ windStates = << >>
    /\ i = 0
    /\ year = 0
    /\ month = 0
    /\ previous = Nil
    /\ forecasts = << >>
    /\ result = Nil
    /\ err = NoError
    /\ allFound = << >>
    /\ oneFound = Nil
    /\ visited = << >>

rows == << days, hours, ratings, swells, waveEnergies, winds, windStates >>

FindCall ==
    /\ pc = "Find"
    /\ allFound' = Find(doc[1], wanted)
    /\ pc' = "FindOne"
    /\ UNCHANGED << input, wanted, oneFound, visited, issuedAt, rows, locals, result,
                    err, panicked >>

FindOneCall ==
    /\ pc = "FindOne"
    /\ oneFound' = FindOne(doc[1], wanted)
    /\ pc' = "ForEach"
    /\ UNCHANGED << input, wanted, allFound, visited, issuedAt, rows, locals, result,
                    err, panicked >>

ForEachCall ==
    /\ pc = "ForEach"
    /\ \E r \in {ForEach("probe", doc[1], [all |-> << >>, cur |-> << >>])} :
          /\ visited' = r.all
          /\ err' = r.err
          /\ panicked' = r.panic
    /\ pc' = "done"
    /\ UNCHANGED << input, wanted, allFound, oneFound, issuedAt, rows, locals, result >>

NextHtmlutil ==
    \/ FindCall
    \/ FindOneCall
    \/ ForEachCall

SpecHtmlutil == InitHtmlutil /\ [][NextHtmlutil]_vars

RECURSIVE PathsOf(_)
\* The ways from the root of t to its nodes, as the numbers of the children
\* taken.
PathsOf(t) ==
    {<< >>} \cup UNION {{<< k >> \o p : p \in PathsOf(t.children[k])} :
                           k \in DOMAIN t.children}

RECURSIVE NodeAt(_, _)
NodeAt(t, p) == IF p = << >> THEN t ELSE NodeAt(t.children[p[1]], Tail(p))

\* p comes before q in document order: p leads to an ancestor of the node of
\* q, or the two part at a node where p takes an earlier child.
Before(p, q) ==
    \/ Len(p) < Len(q) /\ SubSeq(q, 1, Len(p)) = p
    \/ \E k \in 1..Len(p) :
          /\ k <= Len(q)
          /\ p[k] < q[k]
          /\ SubSeq(p, 1, k - 1) = SubSeq(q, 1, k - 1)

\* The nodes of t at the ways of S, in document order.
InDocumentOrder(t, S) ==
    [k \in 1..Cardinality(S) |->
        NodeAt(t, CHOOSE p \in S : Cardinality({q \in S : Before(q, p)}) = k - 1)]

Matching == {p \in PathsOf(doc[1]) : matchesConditions(NodeAt(doc[1], p), wanted)}

\* C17: Find returns the nodes of the tree, the root included, that satisfy
\* every condition of the list, each once, in document order (pre-order,
\* depth first), and the empty sequence when no node does; Find has no
\* other outcome.
C17_FindIsExact ==
    pc \in {"FindOne", "ForEach", "done"}
    => /\ allFound = InDocumentOrder(doc[1], Matching)
       /\ \A j, k \in DOMAIN allFound : j # k => allFound[j] # allFound[k]
       /\ Matching = {} => allFound = << >>

C17_Witness ==
    /\ pc = "FindOne"
    /\ Len(allFound) = 2
    /\ ~matchesConditions(doc[1], wanted)
    /\ Len(doc[1].children) = 2
    /\ doc[1].children[1].children # << >>
    /\ allFound[1] = doc[1].children[1].children[1]
    /\ allFound[2] = doc[1].children[2]

C17_WitnessNone ==
    /\ pc = "FindOne"
    /\ allFound = << >>
    /\ Len(doc[1].children) = 3

\* C18: FindOne returns the first node of what Find returns for the same
\* tree and conditions, and found, when that is not empty; and (nil, false)
\* exactly when it is empty.
C18_FindOneAgreesWithFind ==
    pc \in {"ForEach", "done"}
    => /\ oneFound = (IF allFound = << >> THEN Nil ELSE << allFound[1] >>)
       /\ oneFound = Nil <=> allFound = << >>

C18_Witness ==
    /\ pc = "ForEach"
    /\ oneFound # Nil
    /\ Len(allFound) >= 2
    /\ oneFound[1] # doc[1]
    /\ oneFound[1] = doc[1].children[1].children[1]

C18_WitnessNone ==
    /\ pc = "ForEach"
    /\ oneFound = Nil
    /\ Len(doc[1].children) = 2

Everywhere == InDocumentOrder(doc[1], PathsOf(doc[1]))
Failing == {k \in DOMAIN Everywhere : ClassEquals(Everywhere[k], classFails)}
FirstFailing == CHOOSE k \in Failing : \A j \in Failing : k <= j

\* C20: when the statement returns an error at a node, ForEach returns that
\* error and the statement was called once on each node up to that node in
\* pre-order and on no node after it; when the statement returns no error,
\* it was called once on every node of the tree, in pre-order, and ForEach
\* returns nil.
C20_WalkAbortsOnError ==
    pc = "done"
    => /\ ~panicked
       /\ IF Failing = {}
          THEN /\ visited = Everywhere
               /\ err = NoError
          ELSE /\ visited = SubSeq(Everywhere, 1, FirstFailing)
               /\ err = << "failed at" >>
                           \o Attribute(Everywhere[FirstFailing], attributeID).val

C20_Witness ==
    /\ pc = "done"
    /\ err = << "failed at", "1", "1" >>
    /\ Len(visited) = 3
    /\ Len(doc[1].children) = 2

C20_WitnessNoError ==
    /\ pc = "done"
    /\ err = NoError
    /\ Len(visited) = MaxNodes
    /\ Len(doc[1].children) = 2
    /\ doc[1].children[1].children # << >>
    /\ visited[3] = doc[1].children[1].children[1]

-----------------------------------------------------------------------------
(* surfforecast/forecast.go: scrapeFirstDayHours called on a table of one  *)
(* hours row of up to MaxFirstDayCells cells.                              *)

MaxFirstDayCells == 3

\* Cells scrapeHour of the package accepts, and cells it refuses (an hour of
\* 13, a clock period in lower case), each closing the day or not.
FirstDayCells ==
    {HourCell(h, p, end, FALSE) :
        h \in {<<"1", "2">>, <<"6">>, <<"1", "3">>},
        p \in {<<"A", "M">>, <<"P", "M">>, <<"p", "m">>},
        end \in BOOLEAN}

InitScrapeFirstDayHours ==
    /\ InitRowCall
    /\ pc = "scrapeFirstDayHours"
    /\ \E cells \in SeqsUpTo(FirstDayCells, MaxFirstDayCells) :
          doc = << Table(<< HoursRow(cells) >>) >>

ScrapeFirstDayHoursCall ==
    /\ pc = "scrapeFirstDayHours"
    /\ \E r \in {scrapeFirstDayHours(doc[1])} :
           /\ hours' = r.val
           /\ err' = r.err
           /\ panicked' = r.panic
    /\ pc' = "done"
    /\ UNCHANGED << input, queries, issuedAt, days, ratings, swells, waveEnergies, winds,
                    windStates, locals, result >>

NextScrapeFirstDayHours == ScrapeFirstDayHoursCall

SpecScrapeFirstDayHours == InitScrapeFirstDayHours /\ [][NextScrapeFirstDayHours]_vars

\* The places of the cells that close the day, and the first of them.
DayEnds == {k \in DOMAIN TestCells : ClassContains(TestCells[k], << classIsDayEnd >>)}
FirstDayEnd == CHOOSE k \in DayEnds : \A j \in DayEnds : k <= j

\* A cell the statement scrapes without an error.
ScrapesAsFirstDay(c) ==
    IsHourText(HourText(c)) /\ PeriodText(c) \in {<<"A", "M">>, <<"P", "M">>}

C16_ErrorsAreFailures ==
    (/\ pc = "done"
     /\ \E k \in DOMAIN TestCells :
           /\ ~ScrapesAsFirstDay(TestCells[k])
           /\ \A j \in 1..(k - 1) : j \notin DayEnds)
    => /\ hours = << >>
       /\ Len(err) >= 3
       /\ SubSeq(err, 1, 2) = << "could not scrape hours", "could not scrape hour" >>

\* The text of the issue node of the document, << >> when there is none.
IssueText ==
    With(FindOne(doc[1], << WithClassEqual(classBreakHeaderIssued) >>), LAMBDA issueNode :
        IF issueNode = Nil \/ issueNode[1].children = << >> THEN << >>
        ELSE issueNode[1].children[1].data)

\* The issue text of the fixture with the abbreviation abbr for its zone.
IssuedIn(abbr) == Join([IssueParts EXCEPT ![12] = abbr], " ")

ZoneAbbreviations == DOMAIN Lookup \cup {<<"XYZ">>}

\* C19: once scrapeForecasts has scraped the issue text, the timestamp is in
\* the zone of the first candidate the lookup returns for the abbreviation,
\* whatever candidates follow it; and when the lookup does not know the
\* abbreviation, returns no candidate, or returns a first candidate that
\* cannot be loaded, there is no timestamp and scrapeForecasts has returned
\* the error, even when a later candidate can be loaded.
C19_FirstCandidateOnly ==
    \A abbr \in ZoneAbbreviations :
       (pc # "scrapeForecasts" /\ IssueText = IssuedIn(abbr))
       => IF /\ abbr \in DOMAIN tz
             /\ tz[abbr] # << >>
             /\ tz[abbr][1] \in LoadableLocations
          THEN issuedAt = Date(2024, 4, 15, 18, tz[abbr][1])
          ELSE /\ issuedAt = Date(1, 1, 1, 0, "UTC")
               /\ pc = "done"
               /\ result = Nil
               /\ Len(err) >= 2
               /\ err[1] = "could not scrape issue date"
               /\ err[2] \in {"could not find timezones for abbreviation",
                              "0 timezones found for abbreviation",
                              "could not find time location"}

C19_Witness ==
    /\ pc # "scrapeForecasts"
    /\ IssueText = IssuedIn(<<"AEST">>)
    /\ issuedAt = Date(2024, 4, 15, 18, "Australia/Sydney")

C19_WitnessNoFallBack ==
    /\ pc = "done"
    /\ IssueText = IssuedIn(<<"OLD">>)
    /\ tz[<<"OLD">>][2] \in LoadableLocations
    /\ result = Nil
    /\ err = << "could not scrape issue date", "could not find time location" >>

C19_WitnessNoCandidate ==
    /\ pc = "done"
    /\ IssueText = IssuedIn(<<"NUL">>)
    /\ err = << "could not scrape issue date", "0 timezones found for abbreviation" >>

-----------------------------------------------------------------------------
(* The day-blocks of the hourly rows.                                      *)

\* The data cells of the row of a kind in the table of the document, and the
\* places of those that carry the day-boundary mark.
DataCells(kind) ==
    SelectSeq(CellsOf(TableNode[1], kind),
              LAMBDA c : ClassContains(c, << classForecastTableCell >>))

Boundaries(cells) == {k \in DOMAIN cells : ClassContains(cells[k], << classIsDayEnd >>)}

LastBoundary(cells) ==
    IF Boundaries(cells) = {} THEN 0
    ELSE CHOOSE k \in Boundaries(cells) : \A j \in Boundaries(cells) : j <= k

\* The number of values in the first b blocks.
ValuesIn(blocks, b) == Len(Flatten(SubSeq(blocks, 1, b)))

\* The blocks are the values of the cells up to the last boundary cell, cut
\* after every boundary cell and nowhere else.
Segmented(kind, cells, blocks) ==
    /\ Len(blocks) = Cardinality(Boundaries(cells))
    /\ \A b \in DOMAIN blocks : blocks[b] # << >>
    /\ {ValuesIn(blocks, b) : b \in DOMAIN blocks} = Boundaries(cells)
    /\ Flatten(blocks) = [k \in 1..LastBoundary(cells) |-> ScrapeCell(kind, cells[k]).val]

\* The blocks a row scraper has returned to scrapeForecasts.
BlocksAfter(kind) ==
    CASE kind = "hours" -> hours'
      [] kind = "ratings" -> ratings'
      [] kind = "swells" -> swells'
      [] kind = "waveEnergies" -> waveEnergies'
      [] kind = "winds" -> winds'
      [] kind = "windStates" -> windStates'

RowSucceeds(kind) == pc = kind /\ pc' = AfterRow(kind)

\* C21: whenever one of the six hourly row scrapers succeeds, it returns as
\* many day-blocks as the row has data cells with the day-boundary mark, no
\* block is empty, every block ends with the value of a boundary cell and
\* holds the value of no other boundary cell, and the blocks in order are
\* the values of the cells in document order up to the last boundary cell.
C21_DaySegmentation ==
    [][\A kind \in Rows :
          RowSucceeds(kind) => Segmented(kind, DataCells(kind), BlocksAfter(kind))]_vars

C21_Witness ==
    /\ pc = "newForecasts"
    /\ err = NoError
    /\ Len(DataCells("winds")) = 3
    /\ Boundaries(DataCells("winds")) = {1, 3}
    /\ Len(winds) = 2
    /\ Len(winds[2]) = 2
    /\ Boundaries(DataCells("hours")) = {1, 2, 3}
    /\ hours = << << 1 >>, << 2 >>, << 3 >> >>

\* Every data cell of the row scrapes to a value.
AllScrape(kind, cells) ==
    \A k \in DOMAIN cells :
       With(ScrapeCell(kind, cells[k]), LAMBDA r : ~r.panic /\ r.err = NoError)

\* The values of the cells after the last boundary cell.
Trailing(kind, cells) ==
    {ScrapeCell(kind, cells[k]).val : k \in (LastBoundary(cells) + 1)..Len(cells)}

Leading(kind, cells) ==
    {ScrapeCell(kind, cells[k]).val : k \in 1..LastBoundary(cells)}

Returned(blocks) == {Flatten(blocks)[k] : k \in DOMAIN Flatten(blocks)}

\* C22: when the last data cell of a row whose cells all scrape does not
\* carry the day-boundary mark, the row scraper returns no error, it returns
\* one value for each cell up to the last boundary cell and no more, and a
\* value found only after the last boundary cell is in no returned block.
C22_TrailingBlockDropped ==
    [][\A kind \in Rows :
          (/\ pc = kind
           /\ FindOne(TableNode[1], RowConditions(kind)) # Nil
           /\ AllScrape(kind, DataCells(kind))
           /\ LastBoundary(DataCells(kind)) < Len(DataCells(kind)))
          => /\ pc' = AfterRow(kind)
             /\ err' = NoError
             /\ ~panicked'
             /\ Len(Flatten(BlocksAfter(kind))) = LastBoundary(DataCells(kind))
             /\ Returned(BlocksAfter(kind)) \cap
                   (Trailing(kind, DataCells(kind)) \ Leading(kind, DataCells(kind))) = {}]_vars

C22_Witness ==
    /\ pc = "ratings"
    /\ err = NoError
    /\ Len(DataCells("hours")) = 3
    /\ Boundaries(DataCells("hours")) = {1}
    /\ hours = << << 1 >> >>

C22_WitnessNoBlock ==
    /\ pc = "ratings"
    /\ err = NoError
    /\ Len(DataCells("hours")) = 2
    /\ Boundaries(DataCells("hours")) = {}
    /\ hours = << >>

-----------------------------------------------------------------------------
(* scrapeHours and scrapeWindStates on rows whose cells hold nested         *)
(* elements, some of which carry the classes of a data cell themselves,     *)
(* and on rows that carry the class of a data cell.                         *)

\* The most cells of a row with nested elements.
MaxNestingCells == 2

\* The class attributes of a nested element: none, that of a data cell, and
\* that of a data cell with the day-boundary mark.
NestedAttrs == {<< >>, << CellClass(FALSE) >>, << CellClass(TRUE) >>}

\* An hour cell with an element between the cell and its two values.
WrappedHourCells ==
    {Element("td", << CellClass(end) >>,
             << Element("div", a, << ValueNode(<<"6">>), ValueNode(<<"P", "M">>) >>) >>) :
        end \in BOOLEAN, a \in NestedAttrs}

\* A wind state cell with its text in and after a nested element.
WrappedWindStateCells ==
    {Element("td", << CellClass(end) >>,
             << Element("b", a, << Text(<<"cross">>) >>), Text(<<"-off">>) >>) :
        end \in BOOLEAN, a \in NestedAttrs}

\* The row with the class of a data cell added to its classes.
AsCell(row) ==
    [row EXCEPT !.attr[1].val = @ \o << " " >> \o classForecastTableCell]

\* The rows of up to MaxNestingCells of the cells. The condition of the hours
\* row is met by a class attribute that contains its two classes, that of
\* the wind states row by the one class alone.
NestingRows(kind, cells) ==
    UNION {{RowOf(kind, r)} \cup (IF kind = "hours" THEN {AsCell(RowOf(kind, r))} ELSE {}) :
              r \in SeqsUpTo(cells, MaxNestingCells)}

InitScrapeNested ==
    /\ InitRowCall
    /\ \/ /\ pc = "scrapeHours"
          /\ \E row \in NestingRows("hours", WrappedHourCells) :
                doc = << Table(<< row >>) >>
       \/ /\ pc = "scrapeWindStates"
          /\ \E row \in NestingRows("windStates", WrappedWindStateCells) :
                doc = << Table(<< row >>) >>

NextScrapeNested ==
    \/ ScrapeHoursCall
    \/ ScrapeWindStatesCall

SpecScrapeNested == InitScrapeNested /\ [][NextScrapeNested]_vars

\* The kind of the row of the table, and the blocks its scraper returned.
TestKind == IF TestRowIs("hours") THEN "hours" ELSE "windStates"
TestBlocks == IF TestRowIs("hours") THEN hours ELSE windStates

\* The children of the row that match the data-cell condition.
ChildCells ==
    SelectSeq(TestCells, LAMBDA c : ClassContains(c, << classForecastTableCell >>))

RECURSIVE HasCellBelow(_)
\* A node below n carries the class of a data cell.
HasCellBelow(n) ==
    \E k \in DOMAIN n.children :
       \/ ClassContains(n.children[k], << classForecastTableCell >>)
       \/ HasCellBelow(n.children[k])

\* C23: a row scraper takes values from the children of the row that match
\* the data-cell condition and from no other node: whatever the classes of
\* the row and of the nodes inside the cells are, it returns the values of
\* those children, cut into day-blocks at their day-boundary marks.
C23_OnlyChildrenAreCells ==
    (pc = "done" /\ AllScrape(TestKind, ChildCells))
    => /\ err = NoError
       /\ Segmented(TestKind, ChildCells, TestBlocks)

\* What holds of the code: the values are those of the children when neither
\* the row nor a node inside a cell carries the class of a data cell.
C23_ChildrenWhenNothingElseIsMarked ==
    (/\ pc = "done"
     /\ AllScrape(TestKind, ChildCells)
     /\ ~ClassContains(TestRow, << classForecastTableCell >>)
     /\ \A k \in DOMAIN TestCells : ~HasCellBelow(TestCells[k]))
    => /\ err = NoError
       /\ Segmented(TestKind, ChildCells, TestBlocks)

\* A nested element of the classes of a boundary cell gives a value and
\* closes a block of its own.
C23_NestedValue ==
    /\ pc = "done"
    /\ err = NoError
    /\ TestRowIs("windStates")
    /\ ~ClassContains(TestRow, << classForecastTableCell >>)
    /\ Len(TestCells) = 1
    /\ Boundaries(TestCells) = {1}
    /\ windStates = << << <<"cross", "-off">> >>, << <<"cross">> >> >>

C23_NestedHour ==
    /\ pc = "done"
    /\ err = NoError
    /\ TestRowIs("hours")
    /\ ~ClassContains(TestRow, << classForecastTableCell >>)
    /\ Len(TestCells) = 1
    /\ hours = << << 18, 18 >> >>

\* A row of the class of a data cell gives a value itself.
C23_RowValue ==
    /\ pc = "done"
    /\ err = NoError
    /\ TestRowIs("hours")
    /\ ClassContains(TestRow, << classForecastTableCell >>)
    /\ Len(TestCells) = 1
    /\ ~HasCellBelow(TestCells[1])
    /\ hours = << << 18, 18 >> >>

-----------------------------------------------------------------------------
(* C24: a rating cell without a first child.                                *)

\* The first data cell of the ratings row that does not give a rating has no
\* child at all.
FirstBadRatingIsChildless ==
    /\ FindOne(TableNode[1], RowConditions("ratings")) # Nil
    /\ \E k \in DOMAIN DataCells("ratings") :
          /\ FirstChild(DataCells("ratings")[k]) = Nil
          /\ AllScrape("ratings", SubSeq(DataCells("ratings"), 1, k - 1))

\* C24: when a rating cell has no first child, scrapeRatings returns an error
\* and scrapeForecasts ends by returning that error, wrapped, as its only
\* result; no nil pointer is dereferenced.
C24_AbsentChildIsAnError ==
    [][(pc = "ratings" /\ FirstBadRatingIsChildless)
       => /\ pc' = "done"
          /\ ~panicked'
          /\ result' = Nil
          /\ Len(err') >= 2
          /\ Head(err') = RowError("ratings")]_vars

\* What the code does on such a cell: scrapeForecasts panics in scrapeRatings
\* and returns nothing.
C24_NilDereference ==
    [][(pc = "ratings" /\ FirstBadRatingIsChildless)
       => /\ pc' = "done"
          /\ panicked'
          /\ result' = Nil
          /\ err' = NoError]_vars

\* scrapeForecasts has panicked on a ratings row with a childless cell.
C24_Panicked ==
    /\ pc = "done"
    /\ panicked
    /\ FirstBadRatingIsChildless

-----------------------------------------------------------------------------
(* C25: the records of a result against the blocks they were made of.       *)

\* The two timestamps are on the same calendar date in the same location.
SameDate(t, u) ==
    /\ t.year = u.year
    /\ t.month = u.month
    /\ t.day = u.day
    /\ t.loc = u.loc

\* The record h holds the values at index j of the blocks of day d.
ZippedAt(h, d, j) ==
    /\ h.Rating = ratings[d][j]
    /\ h.Swells = swells[d][j]
    /\ h.WaveEnergyInKiloJoules = waveEnergies[d][j]
    /\ h.Wind.SpeedInKilometersPerHour = winds[d][j].speed
    /\ h.Wind.DirectionToInDegrees = winds[d][j].degrees
    /\ h.Wind.DirectionFromInCompassPoints = winds[d][j].letters
    /\ h.Wind.State = windStates[d][j]
    /\ h.Timestamp.hour = hours[d][j]

\* C25: in every successful result Daily has one entry for each day value, in
\* the order of the day values; entry d has one Hourly record for each hour
\* of the hour block of day d, and record j holds the rating, swells, wave
\* energy, wind and wind state at index j of the blocks of day d, with a
\* timestamp on the date of entry d at the hour hours[d][j].
C25_IndexWiseZip ==
    (pc = "done" /\ result # Nil)
    => /\ err = NoError
       /\ Len(result[1].Daily) = Len(days)
       /\ \A d \in DOMAIN days :
             /\ Len(result[1].Daily[d].Hourly) = Len(hours[d])
             /\ \A j \in DOMAIN hours[d] :
                   /\ ZippedAt(result[1].Daily[d].Hourly[j], d, j)
                   /\ SameDate(result[1].Daily[d].Hourly[j].Timestamp,
                               result[1].Daily[d].Timestamp)

\* A result of two days, the first of two hours and the second of one.
C25_Witness ==
    /\ pc = "done"
    /\ result # Nil
    /\ Len(days) = 2
    /\ Len(hours[1]) = 2
    /\ Len(hours[2]) = 1
    /\ Len(result[1].Daily[1].Hourly) = 2
    /\ result[1].Daily[1].Hourly[2].Wind.State = windStates[1][2]
    /\ result[1].Daily[1].Hourly[1].Wind.State # windStates[1][2]

-----------------------------------------------------------------------------
(* C26: the shape of the transform attribute.                               *)

\* The value of the transform attribute of a wind cell.
TransformOf(c) == c.children[1].children[1].attr[2].val

\* The value is rotate(d) for a number d from 0 to 360.
IsRotation(v) ==
    \E d \in TestDegrees :
       /\ 0 <= d
       /\ d <= 10 * FullCircle
       /\ v = transformRotatePrefix \o DecimalText(d) \o transformRotateSuffix

\* C26: the direction of a wind cell is scraped without error only when the
\* transform attribute is rotate(d) for a number d from 0 to 360; a value
\* without the prefix rotate(, without the closing parenthesis, or a number
\* alone gives an error.
C26_TransformShapeEnforced ==
    (/\ pc = "done"
     /\ TestRowIs("winds")
     /\ err = NoError
     /\ ~panicked)
    => IsRotation(TransformOf(TestCell))

\* What holds of the code: the direction is scraped when the value, with the
\* prefix and the suffix taken off where they are there, is a numeral from 0
\* to 360 or a name of NaN.
C26_TrimmedWhereThere ==
    (/\ pc = "done"
     /\ TestRowIs("winds")
     /\ Len(TestCell.children) > 0)
    => LET t == TrimSuffix(TrimPrefix(TransformOf(TestCell), transformRotatePrefix),
                           transformRotateSuffix)
       IN  err = NoError
           <=> \/ Special(t) = "NaN"
               \/ \E d \in TestDegrees : 0 <= d /\ d <= 10 * FullCircle /\ t = DecimalText(d)

\* A number alone is taken as a direction.
C26_BareNumberAccepted ==
    /\ pc = "done"
    /\ TestRowIs("winds")
    /\ err = NoError
    /\ TransformOf(TestCell) = DecimalText(450)
    /\ winds[Len(winds)][Len(winds[Len(winds)])].degrees = 450

\* A value of another function is refused.
C26_OtherFunctionRefused ==
    /\ pc = "done"
    /\ TestRowIs("winds")
    /\ TestCell = TransformCell(<<"scale(">> \o DecimalText(450) \o transformRotateSuffix)
    /\ err = WindErrors("not float")

-----------------------------------------------------------------------------
(* C27: the order of the dates of a result.                                 *)

\* The date of t is before the date of u.
Earlier(t, u) ==
    \/ t.year < u.year
    \/ t.year = u.year /\ t.month < u.month
    \/ t.year = u.year /\ t.month = u.month /\ t.day < u.day

\* The date of u is the day after the date of t.
DayAfter(t, u) ==
    /\ NormDay(t.year, t.month, t.day + 1)
          = [year |-> u.year, month |-> u.month, day |-> u.day]
    /\ u.loc = t.loc

\* A presentable day sequence whose day value drops only after the last day
\* of a month.
DropsAtMonthEnds(ds, issued) ==
    /\ Presentable(ds, issued)
    /\ \A k \in Drops(ds) :
          LET ym == RefYearMonth(ds, issued, k - 1)
          IN  ds[k - 1] = DaysIn(ym.year, ym.month)

\* The day value k follows the day value k - 1 in the calendar.
Consecutive(ds, k) == ds[k] = ds[k - 1] + 1 \/ (k \in Drops(ds) /\ ds[k] = 1)

\* The dates of the result increase, by one day where the day values are
\* consecutive.
DatesIncrease ==
    \A d \in 2..Len(days) :
       /\ Earlier(result[1].Daily[d - 1].Timestamp, result[1].Daily[d].Timestamp)
       /\ Consecutive(days, d)
            => DayAfter(result[1].Daily[d - 1].Timestamp, result[1].Daily[d].Timestamp)

\* C27: for every issuance month, December included, and every day sequence
\* that is strictly increasing within a month, drops only at a month end and
\* has every day valid for its month, the dates of the DailyForecasts of a
\* successful result are strictly increasing, and each is the day after the
\* one before it where the day values are consecutive.
C27_DailyDatesIncrease ==
    (Succeeded /\ DropsAtMonthEnds(days, issuedAt)) => DatesIncrease

\* What holds of the code: the dates increase when the day sequence does not
\* drop at the end of December.
C27_IncreaseWithinYear ==
    (/\ Succeeded
     /\ DropsAtMonthEnds(days, issuedAt)
     /\ \A k \in Drops(days) : RefYearMonth(days, issuedAt, k - 1).month # December)
    => DatesIncrease

\* A sequence over the end of December is dated backwards.
C27_BackwardsAfterDecember ==
    /\ Succeeded
    /\ issuedAt.month = December
    /\ days = << 30, 31, 1 >>
    /\ result[1].Daily[2].Timestamp.month = December
    /\ result[1].Daily[3].Timestamp.year = issuedAt.year
    /\ result[1].Daily[3].Timestamp.month = 2
    /\ result[1].Daily[3].Timestamp.day = 1

\* A sequence over the end of April is dated day after day.
C27_DayAfterDayInApril ==
    /\ Succeeded
    /\ issuedAt.month = 4
    /\ days = << 29, 30, 1 >>
    /\ DatesIncrease

-----------------------------------------------------------------------------
(* C28: the day value of a block and the day of its date.                   *)

\* newForecasts dates the block i.
DatesBlock == pc = "loop" /\ i <= Len(days) /\ pc' = "loop"

\* The block i is dated on its day value in the running month, and the
\* running month has moved exactly when the day value of the block before is
\* greater.
DayKept ==
    /\ forecasts'[i].Timestamp.day = days[i]
    /\ forecasts'[i].Timestamp.month = month'
    /\ month' # month <=> (i > 1 /\ days[i - 1] > days[i])

\* C28: for every day value parseDay accepts and every running month, the
\* DailyForecast of the block is dated on the scraped day value in the running
\* month: no accepted value is normalised into a neighbouring month, and the
\* rollover test compares with the scraped day value of the block before.
C28_ScrapedDayPreserved ==
    [][(DatesBlock /\ \A k \in 1..i : parseDay(NumeralOf(days[k])).err = NoError)
       => DayKept]_vars

\* What holds of the code: the day value is kept where it and the values
\* before it are days of the months they are dated in.
C28_PreservedWhereValid ==
    [][(/\ DatesBlock
        /\ days[i] \in 1..DaysIn(issuedAt.year, month')
        /\ \A k \in 1..(i - 1) : forecasts[k].Timestamp.day = days[k])
       => DayKept]_vars

\* The day value 31 in April is dated on the first of May.
C28_NormalisedIntoMay ==
    /\ pc = "loop"
    /\ issuedAt.month = 4
    /\ month = 4
    /\ days = << 31 >>
    /\ Len(forecasts) = 1
    /\ forecasts[1].Timestamp.month = 5
    /\ forecasts[1].Timestamp.day = 1

\* After the day value 0, dated on the last of March, the lower day value 30
\* moves the running month on.
C28_RolloverOnNormalisedDay ==
    /\ pc = "loop"
    /\ issuedAt.month = 4
    /\ days = << 0, 30 >>
    /\ Len(forecasts) = 2
    /\ forecasts[1].Timestamp.month = 3
    /\ forecasts[1].Timestamp.day = 31
    /\ month = 5

-----------------------------------------------------------------------------
(* The methods of Scraper: ForecastsForEightDays (forecast.go), Break and   *)
(* SearchBreaks.  httpClient is the answer of s.httpClient.Do to the        *)
(* request of the method: whether the request can be prepared, whether the  *)
(* sending fails, and the status code and the body of the response.         *)

StatusOK == 200
StatusNotFound == 404

ErrBreakNotFound == << "break not found" >>

idDropFormControlNav == <<"dropformcont-nav">>
idCountry == <<"country_id">>
idLocationFilenamePart == <<"location_filename_part">>
attributeSelected == <<"selected">>

WithIDEqual(value) == WithAttributeEqual(attributeID, value)

\* scrapeBreak.  The test before the return is made on countryNameTextNode,
\* as line 176 makes it.
scrapeBreak(n) ==
    With(FindOne(n, << WithIDEqual(idDropFormControlNav) >>), LAMBDA navNode :
    IF navNode = Nil THEN Err(<< "could not find navigation node" >>)
    ELSE
    With(FindOne(navNode[1], << WithIDEqual(idCountry) >>), LAMBDA countryNode :
    IF countryNode = Nil THEN Err(<< "could not find country node" >>)
    ELSE
    With(FindOne(countryNode[1], << WithAttribute(attributeSelected) >>),
         LAMBDA countryNameNode :
    IF countryNameNode = Nil THEN Err(<< "could not find country name node" >>)
    ELSE
    With(FirstChild(countryNameNode[1]), LAMBDA countryNameTextNode :
    IF countryNameTextNode = Nil
    THEN Err(<< "could not find country name text node" >>)
    ELSE
    With(FindOne(navNode[1], << WithIDEqual(idLocationFilenamePart) >>),
         LAMBDA breakNode :
    IF breakNode = Nil THEN Err(<< "could not find break node" >>)
    ELSE
    With(FindOne(breakNode[1], << WithAttribute(attributeSelected) >>),
         LAMBDA breakNameNode :
    IF breakNameNode = Nil THEN Err(<< "could not find break name node" >>)
    ELSE
    With(FirstChild(breakNameNode[1]), LAMBDA breakNameTextNode :
    IF countryNameTextNode = Nil
    THEN Err(<< "could not find break name text node" >>)
    ELSE IF breakNameTextNode = Nil THEN Panic
    ELSE Ok([Name |-> breakNameTextNode[1].data,
             CountryName |-> countryNameTextNode[1].data]))))))))

\* bytes.ReplaceAll(body, []byte(`'`), []byte(`"`)) on a payload: an array of
\* arrays of strings written with the quote, each string a sequence of
\* pieces.
ReplaceQuote(p) == IF p = "'" THEN "\"" ELSE p

ReplaceAllQuotes(body) ==
    [body EXCEPT
        !.quote = ReplaceQuote(@),
        !.rows = [r \in DOMAIN @ |->
                    [c \in DOMAIN @[r] |->
                        [k \in DOMAIN @[r][c] |-> ReplaceQuote(@[r][c][k])]]]]

\* json.Unmarshal(body, &results), results a [][]string: the strings are
\* written with double quotes and hold none.
UnmarshalResults(body) ==
    IF \/ ~body.wellFormed
       \/ body.quote # "\""
       \/ \E r \in DOMAIN body.rows : \E c \in DOMAIN body.rows[r] :
             \E k \in DOMAIN body.rows[r][c] : body.rows[r][c][k] = "\""
    THEN Err(<< "could not unmarshal response body" >>)
    ELSE Ok(body.rows)

RECURSIVE BreaksOf(_, _)
\* Lines 82-95: the loop over the results, from the breaks made so far.
BreaksOf(results, breaks) ==
    IF results = << >> THEN Ok(breaks)
    ELSE IF Len(Head(results)) # 3 THEN Err(<< "unexpected search result" >>)
    ELSE BreaksOf(Tail(results),
                  Append(breaks, [Name |-> Head(results)[2],
                                  CountryName |-> Head(results)[3]]))

\* The method returns: its deferred calls are run and its results handed
\* over.
RunDeferred ==
    /\ resp' = IF deferred # << >> THEN << [resp[1] EXCEPT !.Body.closed = TRUE] >>
               ELSE resp
    /\ deferred' = << >>

Return(val, e) ==
    /\ returned' = << [val |-> val, err |-> e] >>
    /\ pc' = "returned"
    /\ RunDeferred

\* The preparation of the request and s.httpClient.Do(req) (forecast.go lines
\* 55-65 and the same in Break and SearchBreaks).
Do ==
    /\ pc = "Do"
    /\ IF ~httpClient.requestable
       THEN Return(Nil, << IF method = "SearchBreaks"
                           THEN "could not prepare request url"
                           ELSE "could not prepare request", "invalid url" >>)
       ELSE IF httpClient.fails
       THEN Return(Nil, << "could not send request", "transport error" >>)
       ELSE /\ resp' = << [StatusCode |-> httpClient.StatusCode,
                           Body |-> [closed |-> FALSE]] >>
            /\ pc' = "status"
            /\ UNCHANGED << deferred, returned >>
    /\ UNCHANGED << doc, tz, method, httpClient, queries, panicked, args, locals,
                    result, err >>

\* The test of the status code and the defer statement after it (forecast.go
\* lines 67-74).
CheckStatus ==
    /\ pc = "status"
    /\ IF resp[1].StatusCode # StatusOK
       THEN /\ returned' =
                 << [val |-> Nil,
                     err |-> IF method # "SearchBreaks"
                                /\ resp[1].StatusCode = StatusNotFound
                             THEN ErrBreakNotFound
                             ELSE << "received response with status code" >>] >>
            /\ pc' = "returned"
            /\ RunDeferred
       ELSE /\ deferred' = << "resp.Body.Close" >> \o deferred
            /\ pc' = "body"
            /\ UNCHANGED << resp, returned >>
    /\ UNCHANGED << doc, tz, method, httpClient, queries, panicked, args, locals,
                    result, err >>

\* html.Parse(resp.Body) in ForecastsForEightDays and Break.
ParseBody ==
    /\ pc = "body"
    /\ method \in {"ForecastsForEightDays", "Break"}
    /\ IF ~httpClient.readable
       THEN /\ Return(Nil, << "could not parse response body as html", "read error" >>)
            /\ UNCHANGED doc
       ELSE /\ doc' = << httpClient.body >>
            /\ pc' = IF method = "Break" THEN "scrapeBreak" ELSE "scrapeForecasts"
            /\ UNCHANGED << resp, deferred, returned >>
    /\ UNCHANGED << tz, method, httpClient, queries, panicked, args, locals,
                    result, err >>

\* Break from the call of scrapeBreak on.
ScrapeBreakCall ==
    /\ pc = "scrapeBreak"
    /\ \E r \in {scrapeBreak(doc[1])} :
          IF r.panic
          THEN /\ panicked' = TRUE
               /\ pc' = "returned"
               /\ RunDeferred
               /\ UNCHANGED returned
          ELSE /\ IF r.err # NoError
                  THEN Return(Nil, << "could not scrape break" >> \o r.err)
                  ELSE Return(<< r.val >>, NoError)
               /\ UNCHANGED panicked
    /\ UNCHANGED << doc, tz, method, httpClient, queries, args, locals, result, err >>

\* ForecastsForEightDays after the call of scrapeForecasts (lines 80-85).
ForecastsForEightDaysReturn ==
    /\ pc = "done"
    /\ method = "ForecastsForEightDays"
    /\ IF panicked
       THEN /\ pc' = "returned"
            /\ RunDeferred
            /\ UNCHANGED returned
       ELSE IF err # NoError
       THEN Return(Nil, << "could not scrape html" >> \o err)
       ELSE Return(result, NoError)
    /\ UNCHANGED << doc, tz, method, httpClient, queries, panicked, args, locals,
                    result, err >>

\* SearchBreaks from the reading of the body on.
SearchBreaksBody ==
    /\ pc = "body"
    /\ method = "SearchBreaks"
    /\ IF ~httpClient.readable
       THEN Return(Nil, << "could not read response body", "read error" >>)
       ELSE \E r \in {UnmarshalResults(ReplaceAllQuotes(httpClient.body))} :
               IF r.err # NoError THEN Return(Nil, r.err)
               ELSE \E b \in {BreaksOf(r.val, << >>)} : Return(b.val, b.err)
    /\ UNCHANGED << doc, tz, method, httpClient, queries, panicked, args, locals,
                    result, err >>

NextScraper ==
    \/ Do
    \/ CheckStatus
    \/ ParseBody
    \/ NextScrapeForecasts
    \/ ForecastsForEightDaysReturn
    \/ ScrapeBreakCall
    \/ SearchBreaksBody

\* The answers of the HTTP client under test: a request that cannot be
\* prepared, a failure to send, a response of another status than 200, a
\* response whose body cannot be read, and a response with each of the bodies.
Answers(bodies) ==
    LET Answer(requestable, fails, code, readable, body) ==
            [requestable |-> requestable, fails |-> fails, StatusCode |-> code,
             readable |-> readable, body |-> body]
    IN  {Answer(FALSE, FALSE, StatusOK, TRUE, Nil), Answer(TRUE, TRUE, StatusOK, TRUE, Nil),
         Answer(TRUE, FALSE, StatusOK, FALSE, Nil)}
        \cup {Answer(TRUE, FALSE, code, TRUE, Nil) : code \in {StatusNotFound, 500}}
        \cup {Answer(TRUE, FALSE, StatusOK, TRUE, b) : b \in bodies}

\* The forecast pages under test: one day of one hour, with every defect.
ForecastPages ==
    {Document(DayTextsOf(1), << TRUE >>, defect) : defect \in Defects(1, 1)}

\* An option of a select node, selected or not, with a text or none.
Option(selected, text) ==
    Element("option",
            IF selected THEN << Attr(attributeSelected, <<"selected">>) >> ELSE << >>,
            IF text = << >> THEN << >> ELSE << Text(text) >>)

\* The lists of options under test: none selected, one selected with its
\* text, and one selected without a text node.
OptionLists(text) ==
    { << Option(FALSE, <<"Other">>) >>,
      << Option(FALSE, <<"Other">>), Option(TRUE, text) >>,
      << Option(TRUE, << >>) >> }

\* The pages of a break under test: with each of the two select nodes absent
\* or of one of the lists of options, inside the navigation node or not.
BreakPages ==
    LET Selects(id, text) ==
            {<< >>} \cup {<< Element("select", << Attr(attributeID, id) >>, os) >> :
                             os \in OptionLists(text)}
    IN  {Element("html", << >>,
                 << Element("div",
                            IF nav THEN << Attr(attributeID, idDropFormControlNav) >>
                            ELSE << >>,
                            c \o b) >>) :
            nav \in BOOLEAN,
            c \in Selects(idCountry, <<"Indonesia">>),
            b \in Selects(idLocationFilenamePart, <<"Uluwatu">>)}

\* The payloads of a search under test.
SearchPayloads ==
    {[wellFormed |-> w, quote |-> q, rows |-> rs] :
        w \in BOOLEAN, q \in {"'", "\""},
        rs \in { << >>,
                 << << <<"a1">>, <<"Uluwatu">>, <<"Indonesia">> >> >>,
                 << << <<"a1">>, <<"Uluwatu">>, <<"Indonesia">> >>,
                    << <<"b2">>, <<"Pipeline">>, <<"Hawaii">> >> >>,
                 << << <<"a1">>, <<"Uluwatu">>, <<"Indonesia">> >>,
                    << <<"b2">>, <<"Pipeline">> >> >>,
                 << << <<"c3">>, <<"O", "'", "Neills">>, <<"USA">> >> >> }}

InitScraper ==
    /\ \/ method = "ForecastsForEightDays" /\ httpClient \in Answers(ForecastPages)
       \/ method = "Break" /\ httpClient \in Answers(BreakPages)
       \/ method = "SearchBreaks" /\ httpClient \in Answers(SearchPayloads)
    /\ resp = Nil
    /\ deferred = << >>
    /\ returned = Nil
    /\ doc = Nil
    /\ tz = Lookup
    /\ panicked = FALSE
    /\ pc = "Do"
    /\ issuedAt = Date(1, 1, 1, 0, "UTC")
    /\ days = << >>
    /\ hours = << >>
    /\ ratings = << >>
    /\ swells = << >>
    /\ waveEnergies = << >>
    /\ winds = << >>
    /\ windStates = << >>
    /\ i = 0
    /\ year = 0
    /\ month = 0
    /\ previous = Nil
    /\ forecasts = << >>
    /\ result = Nil
    /\ err = NoError
    /\ wanted = << >>
    /\ allFound = << >>
    /\ oneFound = Nil
    /\ visited = << >>

SpecScraper == InitScraper /\ [][NextScraper]_vars

\* The client has returned a response and the method has ended.
Responded == pc = "returned" /\ resp # Nil

\* C29: whenever the HTTP client has returned a response to
\* ForecastsForEightDays, Break or SearchBreaks, the body of the response is
\* closed when the method returns, on the path of the status 404 and of every
\* other status than 200 as on the others.
C29_BodiesAlwaysClosed ==
    Responded => resp[1].Body.closed

\* What holds of the code: the body is closed exactly when the status is 200.
C29_ClosedAfterStatusOK ==
    Responded => (resp[1].Body.closed <=> resp[1].StatusCode = StatusOK)

\* Break has returned ErrBreakNotFound and left the body open.
C29_OpenAfterNotFound ==
    /\ Responded
    /\ method = "Break"
    /\ returned = << [val |-> Nil, err |-> ErrBreakNotFound] >>
    /\ ~resp[1].Body.closed

\* ForecastsForEightDays has returned forecasts and closed the body.
C29_ClosedAfterForecasts ==
    /\ Responded
    /\ method = "ForecastsForEightDays"
    /\ returned # Nil
    /\ returned[1].err = NoError
    /\ returned[1].val # Nil
    /\ resp[1].Body.closed

\* SearchBreaks has returned two breaks and closed the body.
C29_ClosedAfterSearch ==
    /\ Responded
    /\ method = "SearchBreaks"
    /\ returned # Nil
    /\ returned[1].err = NoError
    /\ Len(returned[1].val) = 2
    /\ resp[1].Body.closed

\* The selected option of the break node of the page has no text node, and
\* everything scrapeBreak looks for before it is there.
BreakNameTextMissing ==
    /\ method = "Break"
    /\ doc # Nil
    /\ \E c \in OptionLists(<<"Indonesia">>) :
          /\ \E k \in DOMAIN c : c[k].attr # << >> /\ c[k].children # << >>
          /\ doc[1].children[1]
                = Element("div", << Attr(attributeID, idDropFormControlNav) >>,
                          << Element("select", << Attr(attributeID, idCountry) >>, c),
                             Element("select", << Attr(attributeID, idLocationFilenamePart) >>,
                                     << Option(TRUE, << >>) >>) >>)

\* C30: when the selected option of the break node has no child text node,
\* scrapeBreak returns an error, as it does for the selected option of the
\* country node, and Break returns it; the data of a nil node is not read.
C30_MissingBreakNameIsAnError ==
    (pc = "returned" /\ BreakNameTextMissing)
    => /\ ~panicked
       /\ returned # Nil
       /\ returned[1].val = Nil
       /\ Len(returned[1].err) >= 2
       /\ Head(returned[1].err) = "could not scrape break"

\* What the code does on such a page: Break panics in scrapeBreak.
C30_NilDereference ==
    (pc = "returned" /\ BreakNameTextMissing) => (panicked /\ returned = Nil)

C30_Panicked ==
    /\ pc = "returned"
    /\ BreakNameTextMissing
    /\ panicked

\* The selected option of the country node without a text node is an error.
C30_CountryNameIsAnError ==
    /\ pc = "returned"
    /\ method = "Break"
    /\ returned = << [val |-> Nil,
                      err |-> << "could not scrape break",
                                 "could not find country name text node" >>] >>

\* Break has returned the break of the page.
C30_BreakScraped ==
    /\ pc = "returned"
    /\ method = "Break"
    /\ returned = << [val |-> << [Name |-> <<"Uluwatu">>, CountryName |-> <<"Indonesia">>] >>,
                      err |-> NoError] >>

=============================================================================
